---------------------------- MODULE Spec2Model ----------------------------
(***************************************************************************)
(* A model of auto-commit-splitter: the hunk-granular extension            *)
(* (src/src/extension.ts) and the file-granular variant with the webview   *)
(* panel (src/unnamed/part_000).                                           *)
(*                                                                         *)
(* A JavaScript string is a sequence of one-character strings; undefined   *)
(* (and the empty string, which the code treats alike wherever it tests    *)
(* truthiness) is the empty sequence.  A sha1-derived id is modelled by    *)
(* the tuple that is hashed (the hash is taken to be injective).           *)
(*                                                                         *)
(* Three specifications share the module:                                  *)
(*   SpecValidate  validatePlan applied to bounded plans and snapshots     *)
(*   SpecSnapshot  collectWorkingTreeSnapshot applied to bounded texts     *)
(*   Spec          one split cycle: precondition, snapshot, planner,       *)
(*                 validation and the commit loop, git being an external   *)
(*                 process whose every call may fail                       *)
(***************************************************************************)
EXTENDS Integers, Sequences, FiniteSets, TLC

VARIABLES
    \* SpecValidate
    vplan,      \* the plan handed to validatePlan
    vhunks,     \* the snapshot's hunks
    vops,       \* the snapshot's ops
    vres,       \* validatePlan's outcome, or Pending
    \* SpecSnapshot
    statusRaw,  \* stdout of git status --porcelain=v2 -z
    diffRaw,    \* stdout of git diff --patch
    snap,       \* collectWorkingTreeSnapshot's outcome, or Pending
    \* Spec
    variant,    \* "hunk": extension.ts; "file": the file-granular variant
    repo,       \* whether the workspace holds a git repository
    pc,         \* the cycle's position
    index,      \* the staged changes: ids of hunks and ops, or file paths
    created,    \* the commits created: the planned commit's number and content
    log,        \* the planner requests and git commands issued, with their outcome
    cancel,     \* token.isCancellationRequested
    response,   \* the planner's response
    planned,    \* the plan that generatePlan / generateSimplePlan returned
    changedFiles, \* getChangedFiles' result (file variant)
    commitI,    \* the commit loop's index i, -1 before the loop is entered
    opI,        \* the inner staging loop's index
    result,     \* how the cycle ended
    tree,       \* the changes in the working tree: ids of hunks and ops, or file paths
    addArgs,    \* the `git add` commands that applyPlan issued for ops, in order
    errorParams, \* the values that the message of an error thrown by applyPlan is built from
    isProcessing, \* the module's isProcessing flag
    workspaceFolder, \* whether vscode.workspace.workspaceFolders has a first folder
    repoFound,  \* whether findGitRepo finds a repository
    hasChanges, \* whether getChangedFiles returns any file
    command,    \* where the splitAndCommit command's callback stands
    handler,    \* where handleSplitAndCommit and handlePreviewCommits stand
    execute,    \* where handleExecuteCommits stands
    executeLeft, \* handleExecuteCommits: commits.length - i, the commits still to create
    notices,    \* the kinds of message shown to the user
    retryPc,    \* where runGitWithRetry stands
    retries,    \* runGitWithRetry's parameter retries
    attemptI,   \* runGitWithRetry's loop index i
    gitLog,     \* the outcomes of the runGit calls of the current runGitWithRetry, in order
    lockFile,   \* whether .git/index.lock exists
    lockHandled, \* the calls of handleGitLockFile in the current runGitWithRetry
    retryErr    \* what runGitWithRetry threw

vvars == <<vplan, vhunks, vops, vres>>
svars == <<statusRaw, diffRaw, snap>>
cvars == <<variant, repo, pc, index, created, log, cancel, response, planned,
           changedFiles, commitI, opI, result, tree, addArgs,
           errorParams>>
rvars == <<retryPc, retries, attemptI, gitLog, lockFile, lockHandled, retryErr>>
wvars == <<isProcessing, workspaceFolder, repoFound, hasChanges, command, handler,
           execute, executeLeft, notices>>
vars == <<vvars, svars, cvars, wvars, rvars>>

Pending == [err |-> "pending"]

\* ------------------------------------------------------------ strings

SP == " "
LF == "\n"
CR == "\r"
TAB == "\t"
NUL == "NUL"

Lower == {"a", "b", "c", "d", "e", "f", "g", "h", "i", "j", "k", "l", "m",
          "n", "o", "p", "q", "r", "s", "t", "u", "v", "w", "x", "y", "z"}
\* what String.prototype.trim strips and the regular expression's \s matches
WhiteSpace == {SP, TAB, LF, CR}
\* what the regular expression's . does not match
LineTerminators == {LF, CR}

Drop(s, n) == IF n >= Len(s) THEN <<>> ELSE SubSeq(s, n + 1, Len(s))
Take(s, n) == IF n >= Len(s) THEN s ELSE SubSeq(s, 1, n)

StartsWith(s, p) == Len(s) >= Len(p) /\ SubSeq(s, 1, Len(p)) = p

RECURSIVE TrimStart(_)
TrimStart(s) ==
    IF s # <<>> /\ Head(s) \in WhiteSpace THEN TrimStart(Tail(s)) ELSE s

RECURSIVE TrimEnd(_)
TrimEnd(s) ==
    IF s # <<>> /\ s[Len(s)] \in WhiteSpace
    THEN TrimEnd(SubSeq(s, 1, Len(s) - 1)) ELSE s

Trim(s) == TrimEnd(TrimStart(s))

Min(S) == CHOOSE x \in S : \A y \in S : x <= y

Max(S) == CHOOSE x \in S : \A y \in S : y <= x

\* the k-th smallest element of a set of numbers
Nth(S, k) == CHOOSE x \in S : Cardinality({y \in S : y < x}) = k - 1

\* the pieces of s between the separator characters at the positions seps,
\* each piece losing its last `trail(k)` characters
Pieces(s, seps, trail(_)) ==
    [k \in 1..(Cardinality(seps) + 1) |->
        LET first == IF k = 1 THEN 1 ELSE Nth(seps, k - 1) + 1
            last == IF k = Cardinality(seps) + 1 THEN Len(s)
                    ELSE Nth(seps, k) - 1 - trail(k)
        IN  SubSeq(s, first, last)]

\* s.split(sep) for a one-character separator: always at least one piece
Split(s, sep) ==
    LET none(k) == 0
    IN  Pieces(s, {n \in 1..Len(s) : s[n] = sep}, none)

RECURSIVE Join(_, _)
Join(parts, sep) ==
    IF parts = <<>> THEN <<>>
    ELSE IF Len(parts) = 1 THEN parts[1]
    ELSE parts[1] \o <<sep>> \o Join(Tail(parts), sep)

RECURSIVE Concat(_)
Concat(seqs) == IF seqs = <<>> THEN <<>> ELSE Head(seqs) \o Concat(Tail(seqs))

NonEmpty(s) == s # <<>>

Range(s) == {s[n] : n \in 1..Len(s)}

\* index of the first position >= from holding ch, or 0
RECURSIVE IndexOfFrom(_, _, _)
IndexOfFrom(s, ch, from) ==
    IF from > Len(s) THEN 0
    ELSE IF s[from] = ch THEN from
    ELSE IndexOfFrom(s, ch, from + 1)

\* ------------------------------------------------------- validatePlan

MaxSubject == 72

RECURSIVE LowerPrefixLen(_)
LowerPrefixLen(s) ==
    IF s # <<>> /\ Head(s) \in Lower THEN 1 + LowerPrefixLen(Tail(s)) ELSE 0

\* the rest after an optional (scope), or <<"!">> when a scope opens and
\* does not close after at least one character ("!" never starts a match)
AfterScope(r) ==
    IF r # <<>> /\ Head(r) = "("
    THEN LET close == IndexOfFrom(r, ")", 2)
         IN  IF close >= 3 THEN Drop(r, close) ELSE <<"!">>
    ELSE r

\* isConventionalCommitHeader with `.` matching line terminators as well
isConventionalCommitHeaderAnyChar(s) ==
    LET t == Trim(s)
        n == LowerPrefixLen(t)
        r == AfterScope(Drop(t, n))
        subject == Drop(r, 2)
    IN  /\ n >= 1
        /\ Len(r) >= 2
        /\ r[1] = ":"
        /\ r[2] \in WhiteSpace
        /\ Len(subject) >= 1
        /\ Len(subject) <= MaxSubject

\* /^[a-z]+(\([^)]+\))?:\s.{1,72}$/.test((s ?? "").trim())
isConventionalCommitHeader(s) ==
    LET t == Trim(s)
        n == LowerPrefixLen(t)
        r == AfterScope(Drop(t, n))
        subject == Drop(r, 2)
    IN  /\ n >= 1
        /\ Len(r) >= 2
        /\ r[1] = ":"
        /\ r[2] \in WhiteSpace
        /\ Len(subject) >= 1
        /\ Len(subject) <= MaxSubject
        /\ \A k \in 1..Len(subject) : subject[k] \notin LineTerminators

NoId == "none"

Verdict(err, id, missingHunks, missingOps) ==
    [err |-> err, id |-> id, missingHunks |-> missingHunks, missingOps |-> missingOps]

\* WalkIds without the test against the universe
RECURSIVE WalkIdsNoUnknownCheck(_, _, _, _, _)
WalkIdsNoUnknownCheck(ids, all, seen, unknownErr, duplicateErr) ==
    IF ids = <<>> THEN [err |-> "ok", id |-> NoId, seen |-> seen]
    ELSE IF Head(ids) \in seen
    THEN [err |-> duplicateErr, id |-> Head(ids), seen |-> seen]
    ELSE WalkIdsNoUnknownCheck(Tail(ids), all, seen \cup {Head(ids)},
                               unknownErr, duplicateErr)

\* WalkIds without the already-seen check
RECURSIVE WalkIdsNoDuplicateCheck(_, _, _, _, _)
WalkIdsNoDuplicateCheck(ids, all, seen, unknownErr, duplicateErr) ==
    IF ids = <<>> THEN [err |-> "ok", id |-> NoId, seen |-> seen]
    ELSE IF Head(ids) \notin all
    THEN [err |-> unknownErr, id |-> Head(ids), seen |-> seen]
    ELSE WalkIdsNoDuplicateCheck(Tail(ids), all, seen \cup {Head(ids)},
                                 unknownErr, duplicateErr)

\* one `for (const id of c.hunks ?? [])` loop: the first throw, or the seen set
RECURSIVE WalkIds(_, _, _, _, _)
WalkIds(ids, all, seen, unknownErr, duplicateErr) ==
    IF ids = <<>> THEN [err |-> "ok", id |-> NoId, seen |-> seen]
    ELSE IF Head(ids) \notin all
    THEN [err |-> unknownErr, id |-> Head(ids), seen |-> seen]
    ELSE IF Head(ids) \in seen
    THEN [err |-> duplicateErr, id |-> Head(ids), seen |-> seen]
    ELSE WalkIds(Tail(ids), all, seen \cup {Head(ids)}, unknownErr, duplicateErr)

HunkIdsOf(c) == IF c.hasHunks THEN c.hunks ELSE <<>>
OpIdsOf(c) == IF c.hasOps THEN c.ops ELSE <<>>

\* WalkCommits without the check for a commit that references nothing
RECURSIVE WalkCommitsAllowEmpty(_, _, _, _, _)
WalkCommitsAllowEmpty(commits, allHunks, allOps, seenHunks, seenOps) ==
    IF commits = <<>>
    THEN [err |-> "ok", id |-> NoId, seenHunks |-> seenHunks, seenOps |-> seenOps]
    ELSE LET c == Head(commits)
             wh == WalkIds(HunkIdsOf(c), allHunks, seenHunks,
                           "unknownHunkId", "duplicateHunkId")
             wo == WalkIds(OpIdsOf(c), allOps, seenOps,
                           "unknownOpId", "duplicateOpId")
             stop(e, id) == [err |-> e, id |-> id,
                             seenHunks |-> seenHunks, seenOps |-> seenOps]
         IN  IF Trim(c.message) = <<>> THEN stop("emptyCommitMessage", NoId)
             ELSE IF wh.err # "ok" THEN stop(wh.err, wh.id)
             ELSE IF wo.err # "ok" THEN stop(wo.err, wo.id)
             ELSE IF ~isConventionalCommitHeader(c.message)
             THEN stop("notConventionalCommit", NoId)
             ELSE WalkCommitsAllowEmpty(Tail(commits), allHunks, allOps, wh.seen, wo.seen)

\* the walk over plan.commits; the result carries the two seen sets
RECURSIVE WalkCommits(_, _, _, _, _)
WalkCommits(commits, allHunks, allOps, seenHunks, seenOps) ==
    IF commits = <<>>
    THEN [err |-> "ok", id |-> NoId, seenHunks |-> seenHunks, seenOps |-> seenOps]
    ELSE LET c == Head(commits)
             wh == WalkIds(HunkIdsOf(c), allHunks, seenHunks,
                           "unknownHunkId", "duplicateHunkId")
             wo == WalkIds(OpIdsOf(c), allOps, seenOps,
                           "unknownOpId", "duplicateOpId")
             stop(e, id) == [err |-> e, id |-> id,
                             seenHunks |-> seenHunks, seenOps |-> seenOps]
         IN  IF Trim(c.message) = <<>> THEN stop("emptyCommitMessage", NoId)
             ELSE IF Len(HunkIdsOf(c)) + Len(OpIdsOf(c)) = 0
             THEN stop("emptyCommitNotAllowed", NoId)
             ELSE IF wh.err # "ok" THEN stop(wh.err, wh.id)
             ELSE IF wo.err # "ok" THEN stop(wo.err, wo.id)
             ELSE IF ~isConventionalCommitHeader(c.message)
             THEN stop("notConventionalCommit", NoId)
             ELSE WalkCommits(Tail(commits), allHunks, allOps, wh.seen, wo.seen)

CommitsOf(plan) == IF plan.hasCommits THEN plan.commits ELSE <<>>

\* validatePlan reporting the whole universe as missing
validatePlanMissingUnfiltered(plan, hunks, ops) ==
    LET allHunks == {hunks[n].id : n \in 1..Len(hunks)}
        allOps == {ops[n].id : n \in 1..Len(ops)}
        w == WalkCommits(CommitsOf(plan), allHunks, allOps, {}, {})
        missingHunks == allHunks \ w.seenHunks
        missingOps == allOps \ w.seenOps
    IN  IF Len(CommitsOf(plan)) = 0 THEN Verdict("emptyPlan", NoId, {}, {})
        ELSE IF w.err # "ok" THEN Verdict(w.err, w.id, {}, {})
        ELSE IF missingHunks # {} \/ missingOps # {}
        THEN Verdict("missingItems", NoId, allHunks, allOps)
        ELSE Verdict("ok", NoId, {}, {})

validatePlan(plan, hunks, ops) ==
    LET allHunks == {hunks[n].id : n \in 1..Len(hunks)}
        allOps == {ops[n].id : n \in 1..Len(ops)}
        w == WalkCommits(CommitsOf(plan), allHunks, allOps, {}, {})
        missingHunks == allHunks \ w.seenHunks
        missingOps == allOps \ w.seenOps
    IN  IF Len(CommitsOf(plan)) = 0 THEN Verdict("emptyPlan", NoId, {}, {})
        ELSE IF w.err # "ok" THEN Verdict(w.err, w.id, {}, {})
        ELSE IF missingHunks # {} \/ missingOps # {}
        THEN Verdict("missingItems", NoId, missingHunks, missingOps)
        ELSE Verdict("ok", NoId, {}, {})


\* ------------------------------------------------- status parsing

\* the string that makeOp hashes into the id: `${kind}|${origPath ?? ""}|${path}`
makeOp(kind, path, origPath) ==
    [id |-> <<kind, "|">> \o origPath \o <<"|">> \o path,
     kind |-> kind, path |-> path, origPath |-> origPath]

\* s[n] ?? dflt, n counted from 0 as in the source
CharOr(s, n, dflt) == IF n + 1 <= Len(s) THEN s[n + 1] ELSE dflt

\* tokens[n] of the source (n counted from 0), undefined being <<>>
TokenAt(tokens, n) == IF n + 1 <= Len(tokens) THEN tokens[n + 1] ELSE <<>>

ParseState(ops, unsplittablePaths, hasUnmerged) ==
    [ops |-> ops, unsplittablePaths |-> unsplittablePaths, hasUnmerged |-> hasUnmerged]

WithOp(st, op) ==
    ParseState(Append(st.ops, op), st.unsplittablePaths \cup {op.path}, st.hasUnmerged)

\* UntrackedRecord taking the path after the marker characters and the blanks
UntrackedRecordAfterMarker(st, t) ==
    LET marks == {n \in 1..Len(t) : \A k \in 1..n : t[k] = "?"}
    IN  WithOp(st, makeOp("add", TrimStart(Drop(t, Cardinality(marks))), <<>>))

\* the `?` record: the path is t.slice(2)
UntrackedRecord(st, t) == WithOp(st, makeOp("add", Drop(t, 2), <<>>))

\* OrdinaryRecord looking for T before D
OrdinaryRecordTypechangeFirst(st, t) ==
    LET parts == Split(t, SP)
        xy == parts[2]
        x == CharOr(xy, 0, ".")
        y == CharOr(xy, 1, ".")
        path == Join(SubSeq(parts, 9, Len(parts)), SP)
    IN  IF Len(parts) < 9 THEN st
        ELSE IF x = "T" \/ y = "T" THEN WithOp(st, makeOp("typechange", path, <<>>))
        ELSE IF x = "D" \/ y = "D" THEN WithOp(st, makeOp("delete", path, <<>>))
        ELSE st

\* the `1` record: delete or typechange by the XY code, else no operation
OrdinaryRecord(st, t) ==
    LET parts == Split(t, SP)
        xy == parts[2]
        x == CharOr(xy, 0, ".")
        y == CharOr(xy, 1, ".")
        path == Join(SubSeq(parts, 9, Len(parts)), SP)
    IN  IF Len(parts) < 9 THEN st
        ELSE IF x = "D" \/ y = "D" THEN WithOp(st, makeOp("delete", path, <<>>))
        ELSE IF x = "T" \/ y = "T" THEN WithOp(st, makeOp("typechange", path, <<>>))
        ELSE st

\* the `2` record, origPath being the token after it
RenameRecord(st, t, origPath) ==
    LET parts == Split(t, SP)
        action == CharOr(parts[9], 0, "")
        path == Join(SubSeq(parts, 10, Len(parts)), SP)
    IN  IF action = "C" THEN WithOp(st, makeOp("copy", path, origPath))
        ELSE WithOp(st, makeOp("rename", path, origPath))

\* AfterRename leaving the token after a `2` record to the next turn
AfterRenameNoSkip(i, origPath) == i + 1

\* the loop index after a `2` record: `if (origPath) { i++; }`, then the
\* loop's own i++
AfterRename(i, origPath) == IF origPath # <<>> THEN i + 2 ELSE i + 1

\* the for loop of parsePorcelainV2Z, i counted from 0 as in the source
RECURSIVE ParseTokens(_, _, _)
ParseTokens(tokens, i, st) ==
    IF i >= Len(tokens) THEN st
    ELSE LET t == tokens[i + 1]
             kind == t[1]
         IN  IF kind = "#" THEN ParseTokens(tokens, i + 1, st)
             ELSE IF kind = "?"
             THEN ParseTokens(tokens, i + 1, UntrackedRecord(st, t))
             ELSE IF kind = "u"
             THEN ParseTokens(tokens, i + 1,
                              ParseState(st.ops, st.unsplittablePaths, TRUE))
             ELSE IF kind = "1"
             THEN ParseTokens(tokens, i + 1, OrdinaryRecord(st, t))
             ELSE IF kind = "2"
             THEN IF Len(Split(t, SP)) < 10 THEN ParseTokens(tokens, i + 1, st)
                  ELSE LET origPath == TokenAt(tokens, i + 1)
                       IN  ParseTokens(tokens, AfterRename(i, origPath),
                                       RenameRecord(st, t, origPath))
             ELSE ParseTokens(tokens, i + 1, st)

parsePorcelainV2Z(raw) ==
    ParseTokens(SelectSeq(Split(raw, NUL), NonEmpty), 0, ParseState(<<>>, {}, FALSE))

\* --------------------------------------------------- diff parsing

DIFF_GIT == <<"d", "i", "f", "f", SP, "-", "-", "g", "i", "t", SP>>
PLUS_B == <<"+", "+", "+", SP, "b", "/">>
PLUS_MARK == <<"+", "+", "+", SP>>
MINUS_MARK == <<"-", "-", "-", SP>>
AT_AT == <<"@", "@", SP>>
BINARY_FILES == <<"B", "i", "n", "a", "r", "y", SP, "f", "i", "l", "e", "s", SP>>
AND_B == <<SP, "a", "n", "d", SP, "b", "/">>
DIFFER == <<SP, "d", "i", "f", "f", "e", "r">>
SP_B == <<SP, "b", "/">>
UNKNOWN == <<"U", "N", "K", "N", "O", "W", "N">>

EndsWith(s, p) == Len(s) >= Len(p) /\ SubSeq(s, Len(s) - Len(p) + 1, Len(s)) = p

NoLineTerminator(s) == \A k \in 1..Len(s) : s[k] \notin LineTerminators

\* diff.split(/\r?\n/): a carriage return right before a line feed goes with it
SplitLines(s) ==
    LET seps == {n \in 1..Len(s) : s[n] = LF}
        cr(k) == IF Nth(seps, k) > 1 /\ s[Nth(seps, k) - 1] = CR THEN 1 ELSE 0
    IN  Pieces(s, seps, cr)

\* / and b\/(.+?) differ$/.exec(l): the capture of the leftmost match, or <<>>
\* when there is no match
BinaryDest(l) ==
    LET dest(from) == SubSeq(l, from + Len(AND_B), Len(l) - Len(DIFFER))
        starts == {from \in 1..Len(l) :
                      /\ from + Len(AND_B) + Len(DIFFER) <= Len(l)
                      /\ SubSeq(l, from, from + Len(AND_B) - 1) = AND_B
                      /\ EndsWith(l, DIFFER)
                      /\ NoLineTerminator(dest(from))}
    IN  IF starts = {} THEN <<>> ELSE dest(Min(starts))

\* the for loop of extractBinaryOpsFromDiff
RECURSIVE BinaryOps(_, _, _)
BinaryOps(lines, currentFile, ops) ==
    IF lines = <<>> THEN ops
    ELSE LET l == Head(lines)
             m == BinaryDest(l)
             path == Trim(IF m # <<>> THEN m ELSE currentFile)
         IN  IF StartsWith(l, DIFF_GIT) THEN BinaryOps(Tail(lines), <<>>, ops)
             ELSE IF StartsWith(l, PLUS_B)
             THEN BinaryOps(Tail(lines), Drop(l, Len(PLUS_B)), ops)
             ELSE IF StartsWith(l, BINARY_FILES)
             THEN BinaryOps(Tail(lines), currentFile,
                            IF path # <<>>
                            THEN Append(ops, makeOp("binary", path, <<>>)) ELSE ops)
             ELSE BinaryOps(Tail(lines), currentFile, ops)

extractBinaryOpsFromDiff(diff) == BinaryOps(SplitLines(diff), <<>>, <<>>)

DIFF_GIT_A == DIFF_GIT \o <<"a", "/">>

\* /^diff --git a\/(.+?) b\/(.+)$/ on what follows `diff --git a/`: the second
\* capture for the shortest first capture, or <<>> when there is no match
DiffHeaderDest(rest) ==
    LET splits == {q \in 1..Len(rest) :
                      /\ q + Len(SP_B) < Len(rest)
                      /\ SubSeq(rest, q + 1, q + Len(SP_B)) = SP_B
                      /\ NoLineTerminator(rest)}
    IN  IF splits = {} THEN <<>> ELSE Drop(rest, Min(splits) + Len(SP_B))

RECURSIVE FirstDiffLine(_)
FirstDiffLine(fileHeader) ==
    IF fileHeader = <<>> THEN <<>>
    ELSE IF StartsWith(Head(fileHeader), DIFF_GIT) THEN Head(fileHeader)
    ELSE FirstDiffLine(Tail(fileHeader))

guessFileFromDiffHeader(fileHeader) ==
    LET diffLine == FirstDiffLine(fileHeader)
    IN  IF StartsWith(diffLine, DIFF_GIT_A)
        THEN DiffHeaderDest(Drop(diffLine, Len(DIFF_GIT_A)))
        ELSE <<>>

RECURSIVE CountLines(_, _)
CountLines(hunkLines, sign) ==
    IF hunkLines = <<>> THEN 0
    ELSE LET l == Head(hunkLines)
         IN  (IF /\ ~StartsWith(l, PLUS_MARK)
                 /\ ~StartsWith(l, MINUS_MARK)
                 /\ StartsWith(l, <<sign>>)
              THEN 1 ELSE 0) + CountLines(Tail(hunkLines), sign)

\* add counts before del: a line is counted once
calcStats(hunkLines) ==
    [add |-> CountLines(hunkLines, "+"), del |-> CountLines(hunkLines, "-")]

\* the first index >= i of a line starting a file or a hunk, or Len(lines) + 1
RECURSIVE SectionEnd(_, _)
SectionEnd(lines, i) ==
    IF i > Len(lines) THEN i
    ELSE IF StartsWith(lines[i], DIFF_GIT) \/ StartsWith(lines[i], AT_AT) THEN i
    ELSE SectionEnd(lines, i + 1)

\* currentFile after the meta lines: the last `+++ b/` line's path, or ""
RECURSIVE FileOfMeta(_, _)
FileOfMeta(meta, currentFile) ==
    IF meta = <<>> THEN currentFile
    ELSE FileOfMeta(Tail(meta),
                    IF StartsWith(Head(meta), PLUS_B)
                    THEN Drop(Head(meta), Len(PLUS_B)) ELSE currentFile)

FirstNonEmpty(a, b, c) == IF a # <<>> THEN a ELSE IF b # <<>> THEN b ELSE c

\* MakeHunk keeping no empty line in hunkLines
MakeHunkWithoutEmptyLines(file, fileHeader, hunkLines) ==
    [id |-> file \o <<LF>> \o Join(SelectSeq(hunkLines, NonEmpty), LF),
     file |-> file, fileHeader |-> fileHeader,
     hunkLines |-> SelectSeq(hunkLines, NonEmpty),
     stats |-> calcStats(hunkLines)]

\* the string hashed into the hunk id: file + "\n" + hunkLines.join("\n")
MakeHunk(file, fileHeader, hunkLines) ==
    [id |-> file \o <<LF>> \o Join(hunkLines, LF),
     file |-> file, fileHeader |-> fileHeader, hunkLines |-> hunkLines,
     stats |-> calcStats(hunkLines)]

\* the while loop of parseUnifiedDiff, i counted from 1
RECURSIVE ParseLines(_, _, _, _, _)
ParseLines(lines, i, fileHeader, currentFile, hunks) ==
    IF i > Len(lines) THEN hunks
    ELSE LET end == SectionEnd(lines, i + 1)
             section == SubSeq(lines, i, end - 1)
         IN  IF StartsWith(lines[i], DIFF_GIT)
             THEN ParseLines(lines, end, section, FileOfMeta(Tail(section), <<>>), hunks)
             ELSE IF StartsWith(lines[i], AT_AT)
             THEN ParseLines(lines, end, fileHeader, currentFile,
                             Append(hunks,
                                    MakeHunk(FirstNonEmpty(currentFile,
                                                           guessFileFromDiffHeader(fileHeader),
                                                           UNKNOWN),
                                             fileHeader, section)))
             ELSE ParseLines(lines, i + 1, fileHeader, currentFile, hunks)

parseUnifiedDiff(diff) == ParseLines(SplitLines(diff), 1, <<>>, <<>>, <<>>)

\* ------------------------------------------ collectWorkingTreeSnapshot

\* a Map keyed by id: a later op replaces an earlier one of the same id in place
RECURSIVE dedupeOpsAcc(_, _)
dedupeOpsAcc(ops, acc) ==
    IF ops = <<>> THEN acc
    ELSE LET op == Head(ops)
             at == {n \in 1..Len(acc) : acc[n].id = op.id}
         IN  dedupeOpsAcc(Tail(ops),
                          IF at = {} THEN Append(acc, op)
                          ELSE [n \in 1..Len(acc) |-> IF n \in at THEN op ELSE acc[n]])

\* dedupeOps keeping every operation
dedupeOpsKeepingAll(ops) == ops

dedupeOps(ops) == dedupeOpsAcc(ops, <<>>)

PathsOf(ops) == {ops[n].path : n \in 1..Len(ops)}

\* UnsplittablePaths without the loop over opsAll
UnsplittablePathsStatusOnly(status, opsAll) == status.unsplittablePaths

\* the paths whose hunks are dropped: the status parser's and every op's
UnsplittablePaths(status, opsAll) == status.unsplittablePaths \cup PathsOf(opsAll)

Splittable(unsplittablePaths, h) == h.file \notin unsplittablePaths

\* collectWorkingTreeSnapshot without the test of hasUnmerged
collectWorkingTreeSnapshotUnmergedKept(status, diff) ==
    LET parsed == parsePorcelainV2Z(status)
        opsAll == dedupeOps(parsed.ops \o extractBinaryOpsFromDiff(diff))
        unsplittablePaths == UnsplittablePaths(parsed, opsAll)
        keep(h) == Splittable(unsplittablePaths, h)
    IN  [err |-> "ok",
         hunks |-> SelectSeq(parseUnifiedDiff(diff), keep),
         ops |-> opsAll]

collectWorkingTreeSnapshot(status, diff) ==
    LET parsed == parsePorcelainV2Z(status)
        opsAll == dedupeOps(parsed.ops \o extractBinaryOpsFromDiff(diff))
        unsplittablePaths == UnsplittablePaths(parsed, opsAll)
        keep(h) == Splittable(unsplittablePaths, h)
    IN  IF parsed.hasUnmerged
        THEN [err |-> "unmergedNotSupported", hunks |-> <<>>, ops |-> <<>>]
        ELSE [err |-> "ok",
              hunks |-> SelectSeq(parseUnifiedDiff(diff), keep),
              ops |-> opsAll]

\* ------------------------------------------- inputs of SpecValidate

MaxCommits == 2

AbsHunk(id, file) == [id |-> id, file |-> file]
AbsOp(id, kind, path, origPath) ==
    [id |-> id, kind |-> kind, path |-> path, origPath |-> origPath]

\* two hunks of one file, and an untracked file
H1 == AbsHunk("h1", "a")
H2 == AbsHunk("h2", "a")
O1 == AbsOp("o1", "add", "n", <<>>)

HunkSnapshots == {<<>>, <<H1>>, <<H1, H2>>}
OpSnapshots == {<<>>, <<O1>>}

GoodMsg == <<"f", "i", "x", ":", SP, "a">>
BlankMsg == <<SP>>
BadMsg == <<"F", "i", "x">>
\* an empty message, or none
NoMsg == <<>>
Messages == {GoodMsg, BlankMsg, BadMsg}

HunkLists == {<<>>, <<"h1">>, <<"h2">>, <<"h1", "h2">>, <<"h1", "h1">>}
OpLists == {<<>>, <<"o1">>}

PlanCommit(message, hasHunks, hunks, hasOps, ops) ==
    [message |-> message, hasHunks |-> hasHunks, hunks |-> hunks,
     hasOps |-> hasOps, ops |-> ops]

CommitPool ==
    {PlanCommit(m, TRUE, hs, TRUE, os) : m \in Messages, hs \in HunkLists, os \in OpLists}
    \cup {PlanCommit(m, TRUE, hs, FALSE, <<>>) : m \in Messages, hs \in HunkLists}
    \cup {PlanCommit(m, FALSE, <<>>, TRUE, os) : m \in Messages, os \in OpLists}
    \cup {PlanCommit(GoodMsg, FALSE, <<>>, FALSE, <<>>),
          PlanCommit(NoMsg, TRUE, <<"h1">>, FALSE, <<>>)}

SeqsUpTo(S, n) == UNION {[1..k -> S] : k \in 0..n}

MkPlan(commits) == [hasCommits |-> TRUE, commits |-> commits]
NoCommitsPlan == [hasCommits |-> FALSE, commits |-> <<>>]

PlanPool == {MkPlan(cs) : cs \in SeqsUpTo(CommitPool, MaxCommits)} \cup {NoCommitsPlan}

\* ------------------------------------------- inputs of SpecSnapshot

MaxTokens == 2
MaxLines == 3

PA == <<"a">>
PB == <<"b">>
Field == <<"s">>

TokUntracked(path) == <<"?", SP>> \o path
Tok1(xy, path) ==
    Join(<<<<"1">>, xy, Field, Field, Field, Field, Field, Field, path>>, SP)
Tok2(xscore, path) ==
    Join(<<<<"2">>, <<"R", ".">>, Field, Field, Field, Field, Field, Field, xscore, path>>, SP)
TokUnmerged(path) == <<"u", SP, "U", "U", SP>> \o path

\* the token after a `2` record is taken as its original path
StatusTokenPool ==
    {TokUntracked(PA), Tok1(<<".", "M">>, PA), Tok1(<<".", "D">>, PB),
     Tok2(<<"R", "1">>, PB), TokUnmerged(PA)}

TerminateAll(pieces, end) == Concat([n \in 1..Len(pieces) |-> pieces[n] \o <<end>>])

\* git status -z ends every record with NUL
StatusPool == {TerminateAll(ts, NUL) : ts \in SeqsUpTo(StatusTokenPool, MaxTokens)}

DiffLine(path) == DIFF_GIT_A \o path \o SP_B \o path
PlusLine(path) == PLUS_B \o path
HunkLine == <<"@", "@", SP, "-", "1", SP, "+", "1", SP, "@", "@">>
BinaryLine(path) == BINARY_FILES \o <<"a", "/">> \o path \o AND_B \o path \o DIFFER

DiffLinePool ==
    {DiffLine(PA), PlusLine(PA), PlusLine(PB), HunkLine, BinaryLine(PA)}

\* git diff ends every line with a line feed
DiffPool == {TerminateAll(ls, LF) : ls \in SeqsUpTo(DiffLinePool, MaxLines)}

\* ------------------------------------------------------ SpecValidate

SnapshotIdle ==
    /\ statusRaw = <<>>
    /\ diffRaw = <<>>
    /\ snap = Pending

Running == [kind |-> "running", err |-> "none"]
NoResponse == [kind |-> "none", plan |-> NoCommitsPlan]

CycleIdle ==
    /\ variant = "none"
    /\ repo = FALSE
    /\ pc = "idle"
    /\ index = {}
    /\ created = <<>>
    /\ log = <<>>
    /\ cancel = FALSE
    /\ response = NoResponse
    /\ planned = NoCommitsPlan
    /\ changedFiles = <<>>
    /\ commitI = -1
    /\ opI = 0
    /\ result = Running
    /\ tree = {}
    /\ addArgs = <<>>
    /\ errorParams = <<>>

\* no webview message and no command was handled, no git call retried
WebviewIdle ==
    /\ isProcessing = FALSE
    /\ workspaceFolder = TRUE
    /\ repoFound = TRUE
    /\ hasChanges = TRUE
    /\ command = "idle"
    /\ handler = [h \in {"split", "preview"} |-> "idle"]
    /\ execute = "idle"
    /\ executeLeft = 0
    /\ notices = {}

RetryIdle ==
    /\ retryPc = "idle"
    /\ retries = 0
    /\ attemptI = 0
    /\ gitLog = <<>>
    /\ lockFile = FALSE
    /\ lockHandled = 0
    /\ retryErr = "none"

ValidateIdle ==
    /\ vplan = NoCommitsPlan
    /\ vhunks = <<>>
    /\ vops = <<>>
    /\ vres = Pending

InitValidate ==
    /\ vplan \in PlanPool
    /\ vhunks \in HunkSnapshots
    /\ vops \in OpSnapshots
    /\ vres = Pending
    /\ SnapshotIdle
    /\ CycleIdle
    /\ WebviewIdle
    /\ RetryIdle

Validate ==
    /\ vres = Pending
    /\ vres' = validatePlan(vplan, vhunks, vops)
    /\ UNCHANGED <<vplan, vhunks, vops, svars, cvars, wvars, rvars>>

NextValidate == Validate

SpecValidate == InitValidate /\ [][NextValidate]_vars


\* ------------------------------------------------------ SpecSnapshot

InitSnapshot ==
    /\ statusRaw \in StatusPool
    /\ diffRaw \in DiffPool
    /\ snap = Pending
    /\ ValidateIdle
    /\ CycleIdle
    /\ WebviewIdle
    /\ RetryIdle

Collect ==
    /\ snap = Pending
    /\ snap' = collectWorkingTreeSnapshot(statusRaw, diffRaw)
    /\ UNCHANGED <<statusRaw, diffRaw, vvars, cvars, wvars, rvars>>

NextSnapshot == Collect

SpecSnapshot == InitSnapshot /\ [][NextSnapshot]_vars

\* ------------------------------------------------------ getChangedFiles

MALFORMED_STATUS == {"M", "A", "D", "R", "C"}

ChangedFile(path, status) == [path |-> path, status |-> status]

\* one line of `git status --porcelain`, after the /^[MADRC]/ repair
ChangedFileOf(line) ==
    LET actualLine == IF Head(line) \in MALFORMED_STATUS THEN <<SP>> \o line ELSE line
    IN  ChangedFile(Drop(actualLine, 3), actualLine[2])

LongEnough(line) == Len(line) >= 3
NotBlank(line) == Trim(line) # <<>>

getChangedFiles(output) ==
    LET lines == SelectSeq(SelectSeq(Split(Trim(output), LF), NotBlank), LongEnough)
    IN  [n \in 1..Len(lines) |-> ChangedFileOf(lines[n])]

\* --------------------------------------------------- validateSimplePlan

Upper ==
    {"A", "B", "C", "D", "E", "F", "G", "H", "I", "J", "K", "L", "M",
     "N", "O", "P", "Q", "R", "S", "T", "U", "V", "W", "X", "Y", "Z"}
Digits == {"0", "1", "2", "3", "4", "5", "6", "7", "8", "9"}
WordChars == Lower \cup Upper \cup Digits \cup {"_"}

RECURSIVE WordPrefixLen(_)
WordPrefixLen(s) ==
    IF s # <<>> /\ Head(s) \in WordChars THEN 1 + WordPrefixLen(Tail(s)) ELSE 0

\* message.replace(/^(\w+)(\([^)]+\))?:\s*/, '$1$2: ')
NormalizeHeader(message) ==
    LET n == WordPrefixLen(message)
        r == AfterScope(Drop(message, n))
    IN  IF n >= 1 /\ r # <<>> /\ r[1] = ":"
        THEN Take(message, Len(message) - Len(r)) \o <<":", SP>> \o TrimStart(Drop(r, 1))
        ELSE message

DecimalDigit(n) == CHOOSE d \in Digits : d = ToString(n)

AUTO_FIXED(n) ==
    <<LF, LF, "[", "A", "u", "t", "o", "-", "f", "i", "x", "e", "d", ":", SP,
      "A", "d", "d", "e", "d", SP>> \o <<DecimalDigit(n)>>
    \o <<SP, "m", "i", "s", "s", "i", "n", "g", SP, "f", "i", "l", "e", "s", "]">>

\* UniqueFiles keeping every file
UniqueFilesKeepingDuplicates(files, seenFiles, uniqueFiles) == files

\* the files of one commit not yet in seenFiles, each taken once
RECURSIVE UniqueFiles(_, _, _)
UniqueFiles(files, seenFiles, uniqueFiles) ==
    IF files = <<>> THEN uniqueFiles
    ELSE IF Head(files) \in seenFiles
    THEN UniqueFiles(Tail(files), seenFiles, uniqueFiles)
    ELSE UniqueFiles(Tail(files), seenFiles \cup {Head(files)},
                     Append(uniqueFiles, Head(files)))

\* the loop over plan.commits: the first throw, or the repaired commits
RECURSIVE WalkSimpleCommits(_, _, _, _)
WalkSimpleCommits(commits, allFiles, seenFiles, done) ==
    IF commits = <<>>
    THEN [err |-> "ok", commits |-> done, seenFiles |-> seenFiles]
    ELSE LET commit == Head(commits)
             known(file) == file \in allFiles
             validFiles == SelectSeq(commit.files, known)
             uniqueFiles == UniqueFiles(validFiles, seenFiles, <<>>)
         IN  IF Trim(commit.message) = <<>>
             THEN [err |-> "emptyMessage", commits |-> done, seenFiles |-> seenFiles]
             ELSE IF ~commit.hasFiles
             THEN [err |-> "TypeError", commits |-> done, seenFiles |-> seenFiles]
             ELSE WalkSimpleCommits(Tail(commits), allFiles,
                                    seenFiles \cup Range(uniqueFiles),
                                    Append(done, [commit EXCEPT !.files = uniqueFiles]))

HasFiles(commit) == Len(commit.files) > 0

\* [...allFiles]: a Set keeps the order of first insertion
RECURSIVE InsertionOrder(_, _)
InsertionOrder(paths, acc) ==
    IF paths = <<>> THEN acc
    ELSE InsertionOrder(Tail(paths),
                        IF Head(paths) \in Range(acc) THEN acc ELSE Append(acc, Head(paths)))

validateSimplePlan(plan, files) ==
    LET paths == [n \in 1..Len(files) |-> files[n].path]
        w == WalkSimpleCommits(plan.commits, Range(paths), {}, <<>>)
        kept == SelectSeq(w.commits, HasFiles)
        unseen(file) == file \notin w.seenFiles
        missingFiles == SelectSeq(InsertionOrder(paths, <<>>), unseen)
        lastCommit == kept[Len(kept)]
        fixedCommit ==
            [lastCommit EXCEPT !.files = lastCommit.files \o missingFiles,
                               !.message = NormalizeHeader(lastCommit.message),
                               !.body = lastCommit.body \o AUTO_FIXED(Len(missingFiles))]
    IN  IF ~plan.hasCommits THEN [err |-> "TypeError", plan |-> plan]
        ELSE IF w.err # "ok" THEN [err |-> w.err, plan |-> plan]
        ELSE IF kept = <<>> THEN [err |-> "noValidCommits", plan |-> plan]
        ELSE IF missingFiles # <<>>
        THEN [err |-> "ok",
              plan |-> [plan EXCEPT !.commits = [kept EXCEPT ![Len(kept)] = fixedCommit]]]
        ELSE [err |-> "ok", plan |-> [plan EXCEPT !.commits = kept]]

\* ------------------------------------------------------- generatePlan

\* generatePlan returning the parsed plan without validating it
generatePlanUnvalidated(r, hunks, ops) ==
    IF r.kind = "requestFailed" THEN [err |-> "requestFailed", plan |-> NoCommitsPlan]
    ELSE IF r.kind = "noJson" THEN [err |-> "modelDidNotReturnJson", plan |-> NoCommitsPlan]
    ELSE IF r.kind = "badJson" THEN [err |-> "SyntaxError", plan |-> NoCommitsPlan]
    ELSE [err |-> "ok", plan |-> r.plan]

\* the planner's response r: the request failed, the text holds no balanced
\* object, the object does not parse, or it parses to a plan
generatePlan(r, hunks, ops) ==
    IF r.kind = "requestFailed" THEN [err |-> "requestFailed", plan |-> NoCommitsPlan]
    ELSE IF r.kind = "noJson" THEN [err |-> "modelDidNotReturnJson", plan |-> NoCommitsPlan]
    ELSE IF r.kind = "badJson" THEN [err |-> "SyntaxError", plan |-> NoCommitsPlan]
    ELSE LET v == validatePlan(r.plan, hunks, ops)
         IN  IF v.err # "ok" THEN [err |-> v.err, plan |-> NoCommitsPlan]
             ELSE [err |-> "ok", plan |-> r.plan]

generateSimplePlan(r, files) ==
    IF r.kind = "requestFailed" THEN [err |-> "requestFailed", plan |-> NoCommitsPlan]
    ELSE IF r.kind = "noJson" THEN [err |-> "noJsonFormat", plan |-> NoCommitsPlan]
    ELSE IF r.kind = "badJson" THEN [err |-> "parseFailed", plan |-> NoCommitsPlan]
    ELSE validateSimplePlan(r.plan, files)

\* ----------------------------------------------------------- applyPlan

HasId(items, id) == \E n \in 1..Len(items) : items[n].id = id

\* new Map(items.map(x => [x.id, x])).get(id): the last item of an id wins
ById(items, id) ==
    items[CHOOSE n \in 1..Len(items) :
              /\ items[n].id = id
              /\ \A m \in (n + 1)..Len(items) : items[m].id # id]

\* the first hunk id of the commit that hunkById does not hold, or NoId
RECURSIVE FirstUnknown(_, _)
FirstUnknown(ids, items) ==
    IF ids = <<>> THEN NoId
    ELSE IF ~HasId(items, Head(ids)) THEN Head(ids)
    ELSE FirstUnknown(Tail(ids), items)

\* patchesByFile's keys: the hunks' files in the order they first appear
RECURSIVE PatchFiles(_, _)
PatchFiles(hs, acc) ==
    IF hs = <<>> THEN acc
    ELSE PatchFiles(Tail(hs),
                    IF Head(hs).file \in Range(acc) THEN acc
                    ELSE Append(acc, Head(hs).file))

\* one file's entry: the header of its first hunk, its hunks in the
\* plan's order, an empty part
PartsOfFile(hs, file) ==
    LET ofFile(h) == h.file = file
        mine == SelectSeq(hs, ofFile)
    IN  <<Join(mine[1].fileHeader, LF)>>
        \o [n \in 1..Len(mine) |-> Join(mine[n].hunkLines, LF)]
        \o << <<>> >>

patchParts(c, hunks) ==
    LET hs == [n \in 1..Len(HunkIdsOf(c)) |-> ById(hunks, HunkIdsOf(c)[n])]
        files == PatchFiles(hs, <<>>)
    IN  Concat([n \in 1..Len(files) |-> PartsOfFile(hs, files[n])])

\* patchText.trim() is empty: the parts are joined by line feeds, and runs
\* of line feeds shortened, so it is empty iff every part is blank
PatchTextIsBlank(parts) == \A n \in 1..Len(parts) : Trim(parts[n]) = <<>>

\* the `git add` form of an op kind; "none" for a kind the switch has no case for
AddForm(op) ==
    IF op.kind \in {"add", "binary", "typechange", "copy"} THEN "add"
    ELSE IF op.kind = "delete" THEN "add -u"
    ELSE IF op.kind = "rename" THEN "add -A"
    ELSE "none"

\* AddPaths naming the destination only
AddPathsDestinationOnly(op) == <<op.path>>

\* the paths after `--` in the `git add` command of an op
AddPaths(op) ==
    IF op.kind = "rename" THEN <<op.origPath, op.path>> ELSE <<op.path>>

\* --------------------------------------------------- inputs of Spec

PN == <<"n">>
HunkLine2 == <<"@", "@", SP, "-", "2", SP, "+", "2", SP, "@", "@">>

\* git status --porcelain=v2 -z: a clean tree, an untracked file, a rename
\* record with no further token, a rename and a copy of n to b, a conflict
CycleStatusV2 ==
    {<<>>, TokUntracked(PN) \o <<NUL>>, Tok2(<<"R", "1">>, PB) \o <<NUL>>,
     Tok2(<<"R", "1">>, PB) \o <<NUL>> \o PN \o <<NUL>>,
     Tok2(<<"C", "1">>, PB) \o <<NUL>> \o PN \o <<NUL>>,
     TokUnmerged(PA) \o <<NUL>>,
     TokUntracked(PN) \o <<NUL>> \o TokUnmerged(PA) \o <<NUL>>}

\* git diff: nothing, or two hunks of the file a
CycleDiffs ==
    {<<>>, TerminateAll(<<DiffLine(PA), PlusLine(PA), HunkLine, HunkLine2>>, LF)}

\* git status --porcelain: a clean tree, a modified and an untracked file,
\* a file modified in the index
CycleStatusV1 ==
    {<<>>,
     <<SP, "M", SP, "a", LF, "?", "?", SP, "n", LF>>,
     <<"M", SP, SP, "a", LF>>}

\* a staged change that the cycle did not stage
PreStaged == <<"staged", "before">>

RefLists(ids) ==
    {<<>>} \cup {<<x>> : x \in ids} \cup {p \in ids \X ids : p[1] # p[2]}

IdsIn(items) == {items[n].id : n \in 1..Len(items)}

CycleCommits(hunks, ops) ==
    {PlanCommit(GoodMsg, TRUE, hs, TRUE, os) :
        hs \in RefLists(IdsIn(hunks)), os \in RefLists(IdsIn(ops))}
    \cup {PlanCommit(BadMsg, TRUE, [n \in 1..Len(hunks) |-> hunks[n].id],
                     TRUE, [n \in 1..Len(ops) |-> ops[n].id])}

Response(kind, plan) == [kind |-> kind, plan |-> plan]

Failures ==
    {Response("requestFailed", NoCommitsPlan), Response("noJson", NoCommitsPlan),
     Response("badJson", NoCommitsPlan)}

PlannerResponses(hunks, ops) ==
    Failures
    \cup {Response("plan", MkPlan(cs)) : cs \in SeqsUpTo(CycleCommits(hunks, ops), MaxCommits)}
    \cup {Response("plan", NoCommitsPlan)}

FileCommit(message, hasFiles, files) ==
    [message |-> message, body |-> <<>>, hasFiles |-> hasFiles, files |-> files]

PGhost == <<"g">>

SimpleCommits(files) ==
    {FileCommit(GoodMsg, TRUE, fs) :
        fs \in RefLists({files[n].path : n \in 1..Len(files)} \cup {PGhost})}
    \cup {FileCommit(BlankMsg, TRUE, <<>>), FileCommit(GoodMsg, FALSE, <<>>)}

SimpleResponses(files) ==
    Failures
    \cup {Response("plan", MkPlan(cs)) : cs \in SeqsUpTo(SimpleCommits(files), MaxCommits)}
    \cup {Response("plan", NoCommitsPlan)}

\* ---------------------------------------------------------------- Spec

\* the changes that the working tree holds when the cycle starts: what the
\* status and diff texts describe
WorkingTree(v, status, diff) ==
    IF v = "hunk"
    THEN LET s == collectWorkingTreeSnapshot(status, diff)
         IN  IdsIn(s.hunks) \cup IdsIn(s.ops)
    ELSE LET files == getChangedFiles(status)
         IN  {files[n].path : n \in 1..Len(files)}

fixed == <<vvars, statusRaw, diffRaw, variant, repo, wvars, rvars>>

InitCycle ==
    /\ ValidateIdle
    /\ variant \in {"hunk", "file"}
    /\ repo \in BOOLEAN
    /\ statusRaw \in (IF ~repo THEN {<<>>}
                      ELSE IF variant = "hunk" THEN CycleStatusV2 ELSE CycleStatusV1)
    /\ diffRaw \in (IF repo /\ variant = "hunk" THEN CycleDiffs ELSE {<<>>})
    /\ snap = Pending
    /\ pc = "start"
    /\ index \in (IF repo THEN {{}, {PreStaged}} ELSE {{}})
    /\ created = <<>>
    /\ log = <<>>
    /\ cancel = FALSE
    /\ response = NoResponse
    /\ planned = NoCommitsPlan
    /\ changedFiles = <<>>
    /\ commitI = -1
    /\ opI = 0
    /\ result = Running
    /\ tree = WorkingTree(variant, statusRaw, diffRaw)
    /\ addArgs = <<>>
    /\ errorParams = <<>>
    /\ WebviewIdle
    /\ RetryIdle

Entry(cmd, k, ok) == [cmd |-> cmd, k |-> k, ok |-> ok]
Issue(cmd, k, ok) == log' = Append(log, Entry(cmd, k, ok))

\* a value put into an error message: what it is, and its text
Arg(kind, text) == [kind |-> kind, text |-> text]

\* localize('gitCommandFailed', 'git {0} failed ({1}). {2}', args.join(" "), code, err)
GitFailed(args) == <<Arg("args", args), Arg("code", <<>>), Arg("stderr", <<>>)>>

ApplyArgs == <<"apply", "--cached", "--3way", "--whitespace=nowarn", "-">>
DiffCachedArgs == <<"diff", "--cached", "--name-only">>
ResetArgs == <<"reset">>
\* ["commit", "-m", c.message]
CommitArgs(c) == <<"commit", "-m">> \o c.message
\* ["add", "--", path], ["add", "-u", "--", path], ["add", "-A", "--", origPath, path]
AddArgs(op) ==
    (IF AddForm(op) = "add -u" THEN <<"add", "-u", "--">>
     ELSE IF AddForm(op) = "add -A" THEN <<"add", "-A", "--">>
     ELSE <<"add", "--">>) \o Join(AddPaths(op), SP)

\* what the history holds of the cycle's changes
Committed == UNION {created[k].content : k \in 1..Len(created)}

\* TreeAfter for `git reset --hard`, which makes the working tree equal to HEAD
TreeAfterHardReset(cmd, t) == IF cmd = "reset" THEN Committed ELSE t

\* the working tree after a git command of the commit loops: apply --cached,
\* add, diff --cached, commit and reset (mixed) write the index and the
\* history only
TreeAfter(cmd, t) == t

Goto(p) == pc' = p /\ UNCHANGED <<result, errorParams>>
EndWith(kind, err, params) ==
    pc' = "done" /\ result' = [kind |-> kind, err |-> err] /\ errorParams' = params
End(kind, err) == EndWith(kind, err, <<>>)
\* new Error(localize(err, template, ...params)) thrown by applyPlan
ThrowMsg(err, params) == EndWith("thrown", err, params)
\* a rejected promise leaves the function
Throw(err) == End("thrown", err)
\* an error message is shown and the function returns
Show(err) == End("shown", err)
Return(why) == End("returned", why)

\* ---- splitAndCommit of src/extension.ts

GetRepoRoot ==
    /\ variant = "hunk" /\ pc = "start"
    /\ IF repo THEN Goto("ensureNoStagedChanges") ELSE Show("noRepository")
    /\ UNCHANGED <<fixed, addArgs, tree, snap, index, created, log, cancel, response, planned,
                   changedFiles, commitI, opI>>

\* `git diff --cached --quiet` exits with 1 when the index differs from HEAD;
\* any failure of the command is reported as staged changes
EnsureNoStagedChanges ==
    /\ variant = "hunk" /\ pc = "ensureNoStagedChanges"
    /\ \E ok \in BOOLEAN :
          /\ index # {} => ~ok
          /\ IF ok THEN Goto("cancelCheck1") ELSE Show("stagedChangesError")
    /\ UNCHANGED <<fixed, addArgs, tree, snap, index, created, log, cancel, response, planned,
                   changedFiles, commitI, opI>>

CancelCheck1 ==
    /\ variant = "hunk" /\ pc = "cancelCheck1"
    /\ IF cancel THEN Return("cancelled") ELSE Goto("collect")
    /\ UNCHANGED <<fixed, addArgs, tree, snap, index, created, log, cancel, response, planned,
                   changedFiles, commitI, opI>>

CollectSnapshot ==
    /\ variant = "hunk" /\ pc = "collect"
    /\ \E ok \in BOOLEAN :
          LET s == collectWorkingTreeSnapshot(statusRaw, diffRaw)
          IN  /\ Issue("snapshot", 0, ok)
              /\ IF ~ok THEN Throw("gitCommandFailed") /\ UNCHANGED snap
                 ELSE IF s.err # "ok" THEN Throw(s.err) /\ UNCHANGED snap
                 ELSE /\ snap' = s
                      /\ IF Len(s.hunks) = 0 /\ Len(s.ops) = 0
                         THEN Return("noChanges")
                         ELSE Goto("getOrPickModel")
    /\ UNCHANGED <<fixed, addArgs, tree, index, created, cancel, response, planned,
                   changedFiles, commitI, opI>>

GetOrPickModel ==
    /\ variant = "hunk" /\ pc = "getOrPickModel"
    /\ \E model \in BOOLEAN : IF model THEN Goto("cancelCheck2") ELSE Show("noModel")
    /\ UNCHANGED <<fixed, addArgs, tree, snap, index, created, log, cancel, response, planned,
                   changedFiles, commitI, opI>>

CancelCheck2 ==
    /\ variant = "hunk" /\ pc = "cancelCheck2"
    /\ IF cancel THEN Return("cancelled") ELSE Goto("generatePlan")
    /\ UNCHANGED <<fixed, addArgs, tree, snap, index, created, log, cancel, response, planned,
                   changedFiles, commitI, opI>>

GeneratePlan ==
    /\ variant = "hunk" /\ pc = "generatePlan"
    /\ \E r \in PlannerResponses(snap.hunks, snap.ops) :
          LET g == generatePlan(r, snap.hunks, snap.ops)
          IN  /\ response' = r
              /\ Issue("planner", 0, r.kind # "requestFailed")
              /\ IF g.err # "ok" THEN Throw(g.err) /\ UNCHANGED planned
                 ELSE planned' = g.plan /\ Goto("confirm")
    /\ UNCHANGED <<fixed, addArgs, tree, snap, index, created, cancel, changedFiles, commitI, opI>>

\* showPlanPreview, then the autoApply setting or the modal question
Confirm ==
    /\ variant = "hunk" /\ pc = "confirm"
    /\ \E apply \in BOOLEAN :
          IF apply THEN commitI' = 0 /\ Goto("loop")
          ELSE Return("notApplied") /\ UNCHANGED commitI
    /\ UNCHANGED <<fixed, addArgs, tree, snap, index, created, log, cancel, response, planned,
                   changedFiles, opI>>

\* ---- applyPlan

Current == CommitsOf(planned)[commitI + 1]
StageOrReadBack(c, n) == IF n < Len(OpIdsOf(c)) THEN "stageOp" ELSE "readBack"

\* the head of the loop over plan.commits, up to the patch text
LoopHead ==
    /\ variant = "hunk" /\ pc = "loop"
    /\ IF commitI >= Len(CommitsOf(planned)) THEN Return("done") /\ UNCHANGED opI
       ELSE IF cancel THEN Return("cancelled") /\ UNCHANGED opI
       ELSE IF FirstUnknown(HunkIdsOf(Current), snap.hunks) # NoId
       THEN ThrowMsg("unknownHunkIdInPlan",
                     <<Arg("id", FirstUnknown(HunkIdsOf(Current), snap.hunks))>>) /\ UNCHANGED opI
       ELSE /\ opI' = 0
            /\ IF PatchTextIsBlank(patchParts(Current, snap.hunks))
               THEN Goto(StageOrReadBack(Current, 0))
               ELSE Goto("applyPatch")
    /\ UNCHANGED <<fixed, addArgs, tree, snap, index, created, log, cancel, response, planned,
                   changedFiles, commitI>>

\* ApplyPatch going on to the ops when `git apply` fails
ApplyPatchFailureIgnored ==
    /\ variant = "hunk" /\ pc = "applyPatch"
    /\ \E ok \in BOOLEAN :
          /\ Issue("apply", commitI + 1, ok)
          /\ index' = IF ok THEN index \cup Range(HunkIdsOf(Current)) ELSE index
          /\ Goto(StageOrReadBack(Current, 0))
    /\ tree' = TreeAfter("apply", tree)
    /\ UNCHANGED <<fixed, addArgs, snap, created, cancel, response, planned,
                   changedFiles, commitI, opI>>

\* git apply --cached --3way: the patch enters the index, or the command fails
ApplyPatch ==
    /\ variant = "hunk" /\ pc = "applyPatch"
    /\ \E ok \in BOOLEAN :
          /\ Issue("apply", commitI + 1, ok)
          /\ IF ok
             THEN /\ index' = index \cup Range(HunkIdsOf(Current))
                  /\ Goto(StageOrReadBack(Current, 0))
             ELSE ThrowMsg("gitCommandFailed", GitFailed(ApplyArgs)) /\ UNCHANGED index
    /\ tree' = TreeAfter("apply", tree)
    /\ UNCHANGED <<fixed, addArgs, snap, created, cancel, response, planned,
                   changedFiles, commitI, opI>>

AddOutcomes == {"failed", "staged", "unchanged"}

\* runGit(repoRoot, ["add", ...]) for an op of planned commit k
AddEntry(k, op) == [k |-> k, op |-> op.id, form |-> AddForm(op), paths |-> AddPaths(op)]

\* StageOp catching a failed `git add` and going on
StageOpFailureCaught ==
    /\ variant = "hunk" /\ pc = "stageOp"
    /\ LET opId == OpIdsOf(Current)[opI + 1]
       IN  IF ~HasId(snap.ops, opId)
           THEN ThrowMsg("unknownOpIdInPlan", <<Arg("id", opId)>>) /\ UNCHANGED <<index, log, opI, addArgs>>
           ELSE IF AddForm(ById(snap.ops, opId)) = "add -A"
                   /\ ById(snap.ops, opId).origPath = <<>>
           THEN ThrowMsg("renameMissingOrig", <<Arg("id", opId)>>)
                /\ UNCHANGED <<index, log, opI, addArgs>>
           ELSE IF AddForm(ById(snap.ops, opId)) = "none"
           THEN /\ opI' = opI + 1
                /\ Goto(StageOrReadBack(Current, opI + 1))
                /\ UNCHANGED <<index, log, addArgs>>
           ELSE \E out \in AddOutcomes :
                   /\ Issue("add", commitI + 1, out # "failed")
                   /\ addArgs' = Append(addArgs, AddEntry(commitI + 1, ById(snap.ops, opId)))
                   /\ index' = IF out = "staged" THEN index \cup {opId} ELSE index
                   /\ opI' = opI + 1
                   /\ Goto(StageOrReadBack(Current, opI + 1))
    /\ tree' = TreeAfter("add", tree)
    /\ UNCHANGED <<fixed, snap, created, cancel, response, planned,
                   changedFiles, commitI>>

\* one turn of the loop over c.ops: git add stages the op's paths, finds
\* nothing to stage, or fails
StageOp ==
    /\ variant = "hunk" /\ pc = "stageOp"
    /\ LET opId == OpIdsOf(Current)[opI + 1]
       IN  IF ~HasId(snap.ops, opId)
           THEN ThrowMsg("unknownOpIdInPlan", <<Arg("id", opId)>>) /\ UNCHANGED <<index, log, opI, addArgs>>
           ELSE IF AddForm(ById(snap.ops, opId)) = "add -A"
                   /\ ById(snap.ops, opId).origPath = <<>>
           THEN ThrowMsg("renameMissingOrig", <<Arg("id", opId)>>)
                /\ UNCHANGED <<index, log, opI, addArgs>>
           ELSE IF AddForm(ById(snap.ops, opId)) = "none"
           THEN /\ opI' = opI + 1
                /\ Goto(StageOrReadBack(Current, opI + 1))
                /\ UNCHANGED <<index, log, addArgs>>
           ELSE \E out \in AddOutcomes :
                   /\ Issue("add", commitI + 1, out # "failed")
                   /\ addArgs' = Append(addArgs, AddEntry(commitI + 1, ById(snap.ops, opId)))
                   /\ IF out = "failed"
                      THEN ThrowMsg("gitCommandFailed", GitFailed(AddArgs(ById(snap.ops, opId))))
                           /\ UNCHANGED <<index, opI>>
                      ELSE /\ index' = IF out = "staged" THEN index \cup {opId} ELSE index
                           /\ opI' = opI + 1
                           /\ Goto(StageOrReadBack(Current, opI + 1))
    /\ tree' = TreeAfter("add", tree)
    /\ UNCHANGED <<fixed, snap, created, cancel, response, planned,
                   changedFiles, commitI>>

\* ReadBack skipping a commit with nothing staged
ReadBackSkipsEmpty ==
    /\ variant = "hunk" /\ pc = "readBack"
    /\ \E ok \in BOOLEAN :
          /\ Issue("readBack", commitI + 1, ok)
          /\ IF ~ok THEN ThrowMsg("gitCommandFailed", GitFailed(DiffCachedArgs)) /\ UNCHANGED commitI
             ELSE IF index = {} THEN commitI' = commitI + 1 /\ Goto("loop")
             ELSE Goto("commit") /\ UNCHANGED commitI
    /\ tree' = TreeAfter("readBack", tree)
    /\ UNCHANGED <<fixed, addArgs, snap, index, created, cancel, response, planned,
                   changedFiles, opI>>

\* ReadBack without the test of the staged paths
ReadBackUnchecked ==
    /\ variant = "hunk" /\ pc = "readBack"
    /\ \E ok \in BOOLEAN :
          /\ Issue("readBack", commitI + 1, ok)
          /\ IF ~ok THEN ThrowMsg("gitCommandFailed", GitFailed(DiffCachedArgs)) ELSE Goto("commit")
    /\ tree' = TreeAfter("readBack", tree)
    /\ UNCHANGED <<fixed, addArgs, snap, index, created, cancel, response, planned,
                   changedFiles, commitI, opI>>

\* git diff --cached --name-only, and the refusal of an empty commit
ReadBack ==
    /\ variant = "hunk" /\ pc = "readBack"
    /\ \E ok \in BOOLEAN :
          /\ Issue("readBack", commitI + 1, ok)
          /\ IF ~ok THEN ThrowMsg("gitCommandFailed", GitFailed(DiffCachedArgs))
             ELSE IF index = {} THEN ThrowMsg("nothingStaged", <<Arg("message", Current.message)>>)
             ELSE Goto("commit")
    /\ tree' = TreeAfter("readBack", tree)
    /\ UNCHANGED <<fixed, addArgs, snap, index, created, cancel, response, planned,
                   changedFiles, commitI, opI>>

Created(k, content) == [k |-> k, content |-> content]

\* Commit with a test of the cancellation token before the command
CommitUnlessCancelled ==
    /\ variant = "hunk" /\ pc = "commit"
    /\ IF cancel
       THEN Return("cancelled") /\ UNCHANGED <<created, index, log>>
       ELSE \E ok \in BOOLEAN :
               /\ ok => index # {}
               /\ Issue("commit", commitI + 1, ok)
               /\ IF ok
                  THEN /\ created' = Append(created, Created(commitI + 1, index))
                       /\ index' = {}
                       /\ Goto("reset")
                  ELSE ThrowMsg("gitCommandFailed", GitFailed(CommitArgs(Current)))
                       /\ UNCHANGED <<created, index>>
    /\ tree' = TreeAfter("commit", tree)
    /\ UNCHANGED <<fixed, addArgs, snap, cancel, response, planned, changedFiles, commitI, opI>>

\* git commit: the staged changes become a commit, or the command fails;
\* with nothing staged it fails
Commit ==
    /\ variant = "hunk" /\ pc = "commit"
    /\ \E ok \in BOOLEAN :
          /\ ok => index # {}
          /\ Issue("commit", commitI + 1, ok)
          /\ IF ok
             THEN /\ created' = Append(created, Created(commitI + 1, index))
                  /\ index' = {}
                  /\ Goto("reset")
             ELSE ThrowMsg("gitCommandFailed", GitFailed(CommitArgs(Current)))
                       /\ UNCHANGED <<created, index>>
    /\ tree' = TreeAfter("commit", tree)
    /\ UNCHANGED <<fixed, addArgs, snap, cancel, response, planned, changedFiles, commitI, opI>>

\* Reset without the `git reset` command
ResetSkipped ==
    /\ variant = "hunk" /\ pc = "reset"
    /\ commitI' = commitI + 1
    /\ Goto("loop")
    /\ UNCHANGED <<fixed, addArgs, tree, snap, index, created, log, cancel, response, planned,
                   changedFiles, opI>>

\* git reset, and the end of the loop's body
Reset ==
    /\ variant = "hunk" /\ pc = "reset"
    /\ \E ok \in BOOLEAN :
          /\ Issue("reset", commitI + 1, ok)
          /\ IF ok
             THEN index' = {} /\ commitI' = commitI + 1 /\ Goto("loop")
             ELSE ThrowMsg("gitCommandFailed", GitFailed(ResetArgs)) /\ UNCHANGED <<index, commitI>>
    /\ tree' = TreeAfter("reset", tree)
    /\ UNCHANGED <<fixed, addArgs, snap, created, cancel, response, planned, changedFiles, opI>>

\* the user cancels the progress notification
RequestCancel ==
    /\ variant = "hunk" /\ pc # "done" /\ ~cancel
    /\ cancel' = TRUE
    /\ UNCHANGED <<fixed, addArgs, tree, snap, pc, index, created, log, response, planned,
                   changedFiles, commitI, opI, result, errorParams>>

\* ---- splitAndCommit of the file-granular variant

SimpleGetRepoRoot ==
    /\ variant = "file" /\ pc = "start"
    /\ IF repo THEN Goto("getChangedFiles") ELSE Throw("noRepository")
    /\ UNCHANGED <<fixed, addArgs, tree, snap, index, created, log, cancel, response, planned,
                   changedFiles, commitI, opI>>

GetChangedFiles ==
    /\ variant = "file" /\ pc = "getChangedFiles"
    /\ \E ok \in BOOLEAN :
          /\ Issue("snapshot", 0, ok)
          /\ IF ~ok THEN Throw("gitCommandFailed") /\ UNCHANGED changedFiles
             ELSE /\ changedFiles' = getChangedFiles(statusRaw)
                  /\ IF Len(changedFiles') = 0 THEN Throw("noChanges")
                     ELSE Goto("generateSimplePlan")
    /\ UNCHANGED <<fixed, addArgs, tree, snap, index, created, cancel, response, planned,
                   commitI, opI>>

GenerateSimplePlan ==
    /\ variant = "file" /\ pc = "generateSimplePlan"
    /\ \E r \in SimpleResponses(changedFiles) :
          LET g == generateSimplePlan(r, changedFiles)
          IN  /\ response' = r
              /\ Issue("planner", 0, r.kind # "requestFailed")
              /\ IF g.err # "ok" THEN Throw(g.err) /\ UNCHANGED planned
                 ELSE planned' = g.plan /\ Goto("showCommitPreview")
    /\ UNCHANGED <<fixed, addArgs, tree, snap, index, created, cancel, changedFiles, commitI, opI>>

\* `git diff --stat` fails before the planner is asked
DiffStatFails ==
    /\ variant = "file" /\ pc = "generateSimplePlan"
    /\ Throw("gitCommandFailed")
    /\ UNCHANGED <<fixed, addArgs, tree, snap, index, created, log, cancel, response, planned,
                   changedFiles, commitI, opI>>

ShowCommitPreview ==
    /\ variant = "file" /\ pc = "showCommitPreview"
    /\ \E userApproved \in BOOLEAN :
          IF userApproved THEN commitI' = 0 /\ Goto("execute")
          ELSE Return("cancelledByUser") /\ UNCHANGED commitI
    /\ UNCHANGED <<fixed, addArgs, tree, snap, index, created, log, cancel, response, planned,
                   changedFiles, opI>>

\* ---- executeSimplePlan

SimpleCurrent == planned.commits[commitI + 1]
AddOrReadBack(c, n) == IF n < Len(c.files) THEN "simpleAdd" ELSE "simpleReadBack"

ExecuteLoop ==
    /\ variant = "file" /\ pc = "execute"
    /\ IF commitI >= Len(planned.commits)
       THEN Goto("addRemainingFiles") /\ UNCHANGED opI
       ELSE opI' = 0 /\ Goto(AddOrReadBack(SimpleCurrent, 0))
    /\ UNCHANGED <<fixed, addArgs, tree, snap, index, created, log, cancel, response, planned,
                   changedFiles, commitI>>

\* git add inside try/catch: a failure is logged and the loop goes on
SimpleAdd ==
    /\ variant = "file" /\ pc = "simpleAdd"
    /\ \E out \in AddOutcomes :
          /\ Issue("add", commitI + 1, out # "failed")
          /\ index' = IF out = "staged"
                      THEN index \cup {SimpleCurrent.files[opI + 1]} ELSE index
          /\ opI' = opI + 1
          /\ Goto(AddOrReadBack(SimpleCurrent, opI + 1))
    /\ tree' = TreeAfter("add", tree)
    /\ UNCHANGED <<fixed, addArgs, snap, created, cancel, response, planned,
                   changedFiles, commitI>>

\* git diff --cached --name-only; a commit with nothing staged is skipped
SimpleReadBack ==
    /\ variant = "file" /\ pc = "simpleReadBack"
    /\ \E ok \in BOOLEAN :
          /\ Issue("readBack", commitI + 1, ok)
          /\ IF ~ok THEN Throw("gitCommandFailed") /\ UNCHANGED commitI
             ELSE IF index = {} THEN commitI' = commitI + 1 /\ Goto("execute")
             ELSE Goto("simpleCommit") /\ UNCHANGED commitI
    /\ tree' = TreeAfter("readBack", tree)
    /\ UNCHANGED <<fixed, addArgs, snap, index, created, cancel, response, planned,
                   changedFiles, opI>>

SimpleCommit ==
    /\ variant = "file" /\ pc = "simpleCommit"
    /\ \E ok \in BOOLEAN :
          /\ ok => index # {}
          /\ Issue("commit", commitI + 1, ok)
          /\ IF ok
             THEN /\ created' = Append(created, Created(commitI + 1, index))
                  /\ index' = {}
                  /\ commitI' = commitI + 1
                  /\ Goto("execute")
             ELSE Throw("gitCommandFailed") /\ UNCHANGED <<created, index, commitI>>
    /\ tree' = TreeAfter("commit", tree)
    /\ UNCHANGED <<fixed, addArgs, snap, cancel, response, planned, changedFiles, opI>>

\* the changed files that are neither committed nor staged
Remaining == {changedFiles[n].path : n \in 1..Len(changedFiles)} \ (Committed \cup index)

\* git add for each file the working tree still holds; every failure is caught
AddRemainingFiles ==
    /\ variant = "file" /\ pc = "addRemainingFiles"
    /\ \E staged \in SUBSET Remaining :
          /\ index' = index \cup staged
          /\ Issue("addRemaining", 0, TRUE)
          /\ Return("done")
    /\ tree' = TreeAfter("addRemaining", tree)
    /\ UNCHANGED <<fixed, addArgs, snap, created, cancel, response, planned,
                   changedFiles, commitI, opI>>

Next ==
    \/ GetRepoRoot
    \/ EnsureNoStagedChanges
    \/ CancelCheck1
    \/ CollectSnapshot
    \/ GetOrPickModel
    \/ CancelCheck2
    \/ GeneratePlan
    \/ Confirm
    \/ LoopHead
    \/ ApplyPatch
    \/ StageOp
    \/ ReadBack
    \/ Commit
    \/ Reset
    \/ RequestCancel
    \/ SimpleGetRepoRoot
    \/ GetChangedFiles
    \/ GenerateSimplePlan
    \/ DiffStatFails
    \/ ShowCommitPreview
    \/ ExecuteLoop
    \/ SimpleAdd
    \/ SimpleReadBack
    \/ SimpleCommit
    \/ AddRemainingFiles

Spec == InitCycle /\ [][Next]_vars

\* -------------------------------------------------- inputs of SpecHeader

MaxPad == 1

Repeat(ch, n) == [k \in 1..n |-> ch]

HeaderTypes == {<<>>, <<"f", "i", "x">>, <<"F", "i", "x">>, <<"f", "1">>}
HeaderScopes ==
    {<<>>, <<"(", "c", "o", "r", "e", ")">>, <<"(", ")">>, <<"(", "a">>,
     <<"(", "a", ")", ")">>}
HeaderSeparators == {<<>>, <<":">>, <<":", SP>>, <<":", TAB>>, <<":", LF>>, <<SP>>}
HeaderSubjects ==
    {<<>>, <<"a">>, <<SP, "a">>, <<"a", LF, "b">>, <<"b", "u", "g">>,
     Repeat("x", MaxSubject), Repeat("x", MaxSubject + 1)}
Pads == {Repeat(SP, n) : n \in 0..MaxPad}

\* "fix(core): handle null input"
FixCoreMsg ==
    <<"f", "i", "x", "(", "c", "o", "r", "e", ")", ":", SP, "h", "a", "n", "d", "l", "e",
      SP, "n", "u", "l", "l", SP, "i", "n", "p", "u", "t">>
\* "Fix bug"
FixBugMsg == <<"F", "i", "x", SP, "b", "u", "g">>

HeaderMessages ==
    {l \o t \o sc \o sep \o sub \o r :
        l \in Pads, t \in HeaderTypes, sc \in HeaderScopes, sep \in HeaderSeparators,
        sub \in HeaderSubjects, r \in Pads}
    \cup {FixCoreMsg, FixBugMsg}

\* -------------------------------------------------------- SpecHeader

\* validatePlan on a plan of one commit that references the only hunk, so
\* that the message alone decides
InitHeader ==
    /\ vplan \in {MkPlan(<<PlanCommit(m, TRUE, <<"h1">>, FALSE, <<>>)>>) : m \in HeaderMessages}
    /\ vhunks = <<H1>>
    /\ vops = <<>>
    /\ vres = Pending
    /\ SnapshotIdle
    /\ CycleIdle
    /\ WebviewIdle
    /\ RetryIdle

NextHeader == Validate

SpecHeader == InitHeader /\ [][NextHeader]_vars

\* ------------------------------------------- inputs of SpecScenario

A_TXT == <<"a", ".", "t", "x", "t">>
B_TXT == <<"b", ".", "t", "x", "t">>
MODE == <<"1", "0", "0", "6", "4", "4">>
SHA == <<"<", "s", "h", "a", ">">>
INITIAL == <<"c", "h", "o", "r", "e", ":", SP, "i", "n", "i", "t", "i", "a", "l">>

\* 1 .M N... 100644 100644 100644 <sha> <sha> a.txt
ModifiedATxt ==
    Join(<<<<"1">>, <<".", "M">>, <<"N", ".", ".", ".">>, MODE, MODE, MODE, SHA, SHA, A_TXT>>, SP)

\* the untracked file b.txt with two marker characters, and as
\* git status --porcelain=v2 writes it
UntrackedTwoMarks == <<"?", "?", SP>> \o B_TXT
UntrackedV2 == <<"?", SP>> \o B_TXT

ScenarioStatuses ==
    {TerminateAll(<<ModifiedATxt, u>>, NUL) : u \in {UntrackedTwoMarks, UntrackedV2}}
    \cup {TerminateAll(<<u, ModifiedATxt>>, NUL) : u \in {UntrackedTwoMarks, UntrackedV2}}

\* diffs with one hunk for a.txt
ScenarioDiffs ==
    {TerminateAll(<<DiffLine(A_TXT), HunkLine>>, LF),
     TerminateAll(<<DiffLine(A_TXT), MINUS_MARK \o <<"a", "/">> \o A_TXT, PlusLine(A_TXT),
                    HunkLine, <<"-", "x">>, <<"+", "y">>>>, LF),
     TerminateAll(<<DiffLine(A_TXT) \o <<CR>>, HunkLine \o <<CR>>, <<"+", "y", CR>>>>, LF)}

\* the plan with every id in one commit, with the ids in a commit each, and
\* with the hunks alone
ScenarioPlans(hunks, ops) ==
    LET hs == [n \in 1..Len(hunks) |-> hunks[n].id]
        os == [n \in 1..Len(ops) |-> ops[n].id]
    IN  UNION {{MkPlan(<<PlanCommit(m, TRUE, hs, TRUE, os)>>),
                MkPlan(<<PlanCommit(m, TRUE, hs, FALSE, <<>>),
                         PlanCommit(m, FALSE, <<>>, TRUE, os)>>),
                MkPlan(<<PlanCommit(m, TRUE, hs, TRUE, <<>>)>>)} : m \in {INITIAL, FixBugMsg}}

\* ------------------------------------------------------ SpecScenario

\* status parsing, reconciliation and validation on the end-to-end scenario
InitScenario ==
    /\ statusRaw \in ScenarioStatuses
    /\ diffRaw \in ScenarioDiffs
    /\ snap = Pending
    /\ vhunks = collectWorkingTreeSnapshot(statusRaw, diffRaw).hunks
    /\ vops = collectWorkingTreeSnapshot(statusRaw, diffRaw).ops
    /\ vplan \in ScenarioPlans(vhunks, vops)
    /\ vres = Pending
    /\ CycleIdle
    /\ WebviewIdle
    /\ RetryIdle

NextScenario == Collect \/ Validate

SpecScenario == InitScenario /\ [][NextScenario]_vars

\* ------------------------------------------------ inputs of SpecDiff

\* the lines of DiffLinePool, a `--- a/` line and a line of a hunk's body
DiffTextLinePool ==
    DiffLinePool \cup {MINUS_MARK \o <<"a", "/">> \o PA, <<"+", "y">>}

DiffTextPool == {TerminateAll(ls, LF) : ls \in SeqsUpTo(DiffTextLinePool, MaxLines)}

\* ---------------------------------------------------------- SpecDiff

\* the snapshot of a repository whose status text is empty
InitDiff ==
    /\ statusRaw = <<>>
    /\ diffRaw \in DiffTextPool
    /\ snap = Pending
    /\ ValidateIdle
    /\ CycleIdle
    /\ WebviewIdle
    /\ RetryIdle

NextDiff == Collect

SpecDiff == InitDiff /\ [][NextDiff]_vars

\* ---------------------------------------------- inputs of SpecStatus

PathWithSpace == <<"a", SP, "b">>

\* records of git status --porcelain=v2 -z, records cut short, a header
\* line, an ignored file, and a bare path
StatusRecordPool ==
    {TokUntracked(PA),
     Tok1(<<".", "M">>, PA), Tok1(<<".", "D">>, PB), Tok1(<<"T", ".">>, PA),
     Tok1(<<"D", "T">>, PA), Tok1(<<".", "D">>, PathWithSpace),
     Join(<<<<"1">>, <<"D", ".">>, PA>>, SP),
     Tok2(<<"R", "1">>, PB), Tok2(<<"C", "1">>, PB), Tok2(<<"X", "1">>, PB),
     Join(<<<<"2">>, <<"R", ".">>, PB>>, SP),
     TokUnmerged(PA),
     <<"#", SP, "x">>, <<"!", SP, "a">>, PA}

StatusTextPool == {TerminateAll(ts, NUL) : ts \in SeqsUpTo(StatusRecordPool, MaxTokens)}

\* -------------------------------------------------------- SpecStatus

\* the snapshot of a repository whose diff text is empty
InitStatus ==
    /\ statusRaw \in StatusTextPool
    /\ diffRaw = <<>>
    /\ snap = Pending
    /\ ValidateIdle
    /\ CycleIdle
    /\ WebviewIdle
    /\ RetryIdle

NextStatus == Collect

SpecStatus == InitStatus /\ [][NextStatus]_vars

\* ------------------------------------------- extractJsonObjectBalanced

QUOTE == "\""
BACKSLASH == "\\"

ReturnedJson(text) == [kind |-> "returned", err |-> "none", text |-> text]
ThrownJson == [kind |-> "thrown", err |-> "modelDidNotReturnJson", text |-> <<>>]

\* a character inside a string that escapes nothing
EscapesNothing(ch) == FALSE

\* ch === "\\" inside a string
Escapes(ch) == ch = BACKSLASH

\* the loop from position i, with the loop's depth, inStr and esc
RECURSIVE ScanJson(_, _, _, _, _, _)
ScanJson(text, start, i, depth, inStr, esc) ==
    IF i > Len(text) THEN ThrownJson
    ELSE LET ch == text[i]
         IN  IF inStr
             THEN IF esc THEN ScanJson(text, start, i + 1, depth, TRUE, FALSE)
                  ELSE IF Escapes(ch) THEN ScanJson(text, start, i + 1, depth, TRUE, TRUE)
                  ELSE IF ch = QUOTE THEN ScanJson(text, start, i + 1, depth, FALSE, esc)
                  ELSE ScanJson(text, start, i + 1, depth, TRUE, esc)
             ELSE IF ch = QUOTE THEN ScanJson(text, start, i + 1, depth, TRUE, esc)
             ELSE IF ch = "{" THEN ScanJson(text, start, i + 1, depth + 1, FALSE, esc)
             ELSE IF ch = "}"
             THEN IF depth - 1 = 0 THEN ReturnedJson(Trim(SubSeq(text, start, i)))
                  ELSE ScanJson(text, start, i + 1, depth - 1, FALSE, esc)
             ELSE ScanJson(text, start, i + 1, depth, FALSE, esc)

extractJsonObjectBalanced(text) ==
    LET opening == {k \in 1..Len(text) : text[k] = "{"}
    IN  IF opening = {} THEN ThrownJson
        ELSE ScanJson(text, Min(opening), Min(opening), 0, FALSE, FALSE)

\* ------------------------------------------------ inputs of SpecJson

MaxText == 6

\* replies of the model: braces, quotes, backslashes and a letter
JsonChars == {"{", "}", QUOTE, BACKSLASH, "a"}

JsonTextPool == SeqsUpTo(JsonChars, MaxText)

\* ---------------------------------------------------------- SpecJson

\* `response` holds the text of the model's reply, `result` what
\* extractJsonObjectBalanced made of it
InitJson ==
    /\ response \in JsonTextPool
    /\ result = Running
    /\ variant = "none"
    /\ repo = FALSE
    /\ pc = "idle"
    /\ index = {}
    /\ created = <<>>
    /\ log = <<>>
    /\ cancel = FALSE
    /\ planned = NoCommitsPlan
    /\ changedFiles = <<>>
    /\ commitI = -1
    /\ opI = 0
    /\ tree = {}
    /\ addArgs = <<>>
    /\ errorParams = <<>>
    /\ ValidateIdle
    /\ SnapshotIdle
    /\ WebviewIdle
    /\ RetryIdle

ExtractJson ==
    /\ result = Running
    /\ result' = extractJsonObjectBalanced(response)
    /\ UNCHANGED <<response, variant, repo, pc, index, created, log, cancel, planned,
                   changedFiles, commitI, opI, tree, addArgs, errorParams, vvars, svars,
                   wvars, rvars>>

NextJson == ExtractJson

SpecJson == InitJson /\ [][NextJson]_vars

\* ----------------------------------------------------- runGitWithRetry

\* retries: number = 3
DefaultRetries == 3

\* how a call of runGit ends: normally, with an error whose message holds
\* "index.lock", with one whose message holds "Another git process", or
\* with any other error
GitOutcomes == {"ok", "indexLock", "anotherProcess", "other"}

\* every failure taken for a lock error
IsLockErrorAnyFailure(o) == o # "ok"

\* errorMessage.includes('index.lock') || errorMessage.includes('Another git process')
IsLockError(o) == o \in {"indexLock", "anotherProcess"}

\* the call runGitWithRetry(repoRoot, args, n)
CallRunGitWithRetry(n) ==
    /\ retryPc' = "loop"
    /\ retries' = n
    /\ attemptI' = 0
    /\ gitLog' = <<>>
    /\ lockHandled' = 0
    /\ retryErr' = "none"

\* one pass of the for loop: the test i < retries, the call of runGit and
\* the catch block up to the call of handleGitLockFile
RunGitAttempt ==
    /\ retryPc = "loop"
    /\ IF attemptI < retries
       THEN \E o \in GitOutcomes, held \in BOOLEAN :
              /\ gitLog' = Append(gitLog, o)
              /\ lockFile' = IF IsLockError(o) THEN held
                             ELSE IF o = "ok" THEN FALSE ELSE lockFile
              /\ IF o = "ok" THEN retryPc' = "returned" /\ retryErr' = retryErr
                 ELSE IF IsLockError(o) /\ attemptI < retries - 1
                 THEN retryPc' = "handleLock" /\ retryErr' = retryErr
                 ELSE retryPc' = "thrown" /\ retryErr' = o
       ELSE /\ retryPc' = "thrown"
            /\ retryErr' = "maxRetries"
            /\ UNCHANGED <<gitLog, lockFile>>
    /\ UNCHANGED <<retries, attemptI, lockHandled, vvars, svars, cvars, wvars>>

\* handleGitLockFile: the lock file is unlinked if it exists; a failure to
\* unlink it is caught and logged
HandleGitLockFile ==
    /\ retryPc = "handleLock"
    /\ lockHandled' = lockHandled + 1
    /\ lockFile' \in (IF lockFile THEN {FALSE, TRUE} ELSE {FALSE})
    /\ retryPc' = "sleep"
    /\ UNCHANGED <<retries, attemptI, gitLog, retryErr, vvars, svars, cvars, wvars>>

\* the one-second timer, then continue
RetryWait ==
    /\ retryPc = "sleep"
    /\ attemptI' = attemptI + 1
    /\ retryPc' = "loop"
    /\ UNCHANGED <<retries, gitLog, lockFile, lockHandled, retryErr, vvars, svars, cvars, wvars>>

\* ------------------------------------------------------------ SpecRetry

\* a call of runGitWithRetry with zero to three retries
InitRetry ==
    /\ retryPc = "loop"
    /\ retries \in 0..DefaultRetries
    /\ attemptI = 0
    /\ gitLog = <<>>
    /\ lockFile \in BOOLEAN
    /\ lockHandled = 0
    /\ retryErr = "none"
    /\ WebviewIdle
    /\ ValidateIdle
    /\ SnapshotIdle
    /\ CycleIdle

NextRetry == RunGitAttempt \/ HandleGitLockFile \/ RetryWait

\* runGit returns or throws, the file system call returns and the timer fires
SpecRetry == InitRetry /\ [][NextRetry]_vars /\ WF_vars(NextRetry)

\* ------------------------------------------ inputs of SpecSimplePlan

\* file lists a planner may propose: changed files, a file that does not
\* exist, files named twice
ProposedFiles ==
    SeqsUpTo({PA, PB, PGhost}, 2) \cup {<<PA, PA, PB>>, <<PB, PGhost, PA>>}

ProposedCommits ==
    {FileCommit(GoodMsg, TRUE, fs) : fs \in ProposedFiles}
    \cup {FileCommit(BlankMsg, TRUE, <<PA>>), FileCommit(GoodMsg, FALSE, <<>>)}

ProposedPlans == {MkPlan(cs) : cs \in SeqsUpTo(ProposedCommits, MaxCommits)}

ChangedFilePool ==
    {<<>>, <<ChangedFile(PA, "M")>>, <<ChangedFile(PA, "M"), ChangedFile(PB, "M")>>,
     <<ChangedFile(PA, "M"), ChangedFile(PB, "M"), ChangedFile(PN, "??")>>}

\* ----------------------------------------------------- SpecSimplePlan

\* `vplan` is the plan that the planner proposed, `vres` what
\* validateSimplePlan made of it
InitSimplePlan ==
    /\ vplan \in ProposedPlans
    /\ changedFiles \in ChangedFilePool
    /\ vhunks = <<>>
    /\ vops = <<>>
    /\ vres = Pending
    /\ variant = "none"
    /\ repo = FALSE
    /\ pc = "idle"
    /\ index = {}
    /\ created = <<>>
    /\ log = <<>>
    /\ cancel = FALSE
    /\ response = NoResponse
    /\ planned = NoCommitsPlan
    /\ commitI = -1
    /\ opI = 0
    /\ result = Running
    /\ tree = {}
    /\ addArgs = <<>>
    /\ errorParams = <<>>
    /\ SnapshotIdle
    /\ WebviewIdle
    /\ RetryIdle

ValidateSimplePlan ==
    /\ vres = Pending
    /\ vres' = validateSimplePlan(vplan, changedFiles)
    /\ UNCHANGED <<vplan, vhunks, vops, svars, cvars, wvars, rvars>>

NextSimplePlan == ValidateSimplePlan

SpecSimplePlan == InitSimplePlan /\ [][NextSimplePlan]_vars

\* ------------------------------------- the command and the webview view

\* the splitAndCommit command: the isProcessing test, then isProcessing =
\* true before splitAndCommit is awaited
CommandInvoked ==
    /\ command = "idle"
    /\ IF isProcessing
       THEN /\ notices' = notices \cup {"alreadyRunning"}
            /\ UNCHANGED <<isProcessing, command>>
       ELSE /\ isProcessing' = TRUE
            /\ command' = "planning"
            /\ UNCHANGED notices
    /\ UNCHANGED <<workspaceFolder, repoFound, hasChanges, handler, execute, executeLeft,
                   vvars, svars, cvars, rvars>>

\* the `finally` block of the command
CommandFinally ==
    /\ isProcessing' = FALSE
    /\ command' = "idle"

\* splitAndCommit up to the call of executeSimplePlan: it throws without a
\* folder, a repository or a change and when the planner fails, returns
\* when the user declines the preview, and goes on to the commit loop
CommandPlanned ==
    /\ command = "planning"
    /\ \/ CommandFinally
       \/ /\ workspaceFolder /\ repoFound /\ hasChanges
          /\ command' = "executing"
          /\ UNCHANGED isProcessing
    /\ UNCHANGED <<workspaceFolder, repoFound, hasChanges, handler, execute, executeLeft,
                   notices, vvars, svars, cvars, rvars>>

\* executeSimplePlan and addRemainingFiles return or throw
CommandExecuted ==
    /\ command = "executing"
    /\ CommandFinally
    /\ UNCHANGED <<workspaceFolder, repoFound, hasChanges, handler, execute, executeLeft,
                   notices, vvars, svars, cvars, rvars>>

HandlerGoes(h, p) == handler' = [handler EXCEPT ![h] = p]

\* the message splitAndCommit: handleSplitAndCommit up to the first await
\* in handlePreviewCommits
SplitMessage ==
    /\ handler["split"] = "idle"
    /\ IF workspaceFolder
       THEN isProcessing' = TRUE /\ HandlerGoes("split", "findGitRepo")
       ELSE isProcessing' = FALSE /\ UNCHANGED handler
    /\ UNCHANGED <<workspaceFolder, repoFound, hasChanges, command, execute, executeLeft,
                   notices, vvars, svars, cvars, rvars>>

\* the message previewCommits: handlePreviewCommits up to its first await
PreviewMessage ==
    /\ handler["preview"] = "idle"
    /\ IF workspaceFolder THEN HandlerGoes("preview", "findGitRepo") ELSE UNCHANGED handler
    /\ UNCHANGED <<isProcessing, workspaceFolder, repoFound, hasChanges, command, execute,
                   executeLeft, notices, vvars, svars, cvars, rvars>>

\* handlePreviewCommits after findGitRepo: if (!repoRoot) return
PreviewFindGitRepo(h) ==
    /\ handler[h] = "findGitRepo"
    /\ HandlerGoes(h, IF repoFound THEN "getChangedFiles" ELSE "idle")
    /\ UNCHANGED <<isProcessing, workspaceFolder, repoFound, hasChanges, command, execute,
                   executeLeft, notices, vvars, svars, cvars, rvars>>

\* handlePreviewCommits after getChangedFiles: no changes, a thrown error,
\* or on to generateSimplePlan
PreviewGetChangedFiles(h) ==
    /\ handler[h] = "getChangedFiles"
    /\ \/ isProcessing' = FALSE /\ HandlerGoes(h, "idle")
       \/ hasChanges /\ HandlerGoes(h, "generateSimplePlan") /\ UNCHANGED isProcessing
    /\ UNCHANGED <<workspaceFolder, repoFound, hasChanges, command, execute, executeLeft,
                   notices, vvars, svars, cvars, rvars>>

\* handlePreviewCommits after generateSimplePlan: the preview is posted, or
\* the error is shown
PreviewGenerateSimplePlan(h) ==
    /\ handler[h] = "generateSimplePlan"
    /\ isProcessing' = FALSE
    /\ HandlerGoes(h, "idle")
    /\ UNCHANGED <<workspaceFolder, repoFound, hasChanges, command, execute, executeLeft,
                   notices, vvars, svars, cvars, rvars>>

\* the message executeCommits: handleExecuteCommits up to its first await
ExecuteMessage ==
    /\ execute = "idle"
    /\ isProcessing' = TRUE
    /\ \E n \in 0..MaxCommits : executeLeft' = n
    /\ execute' = IF workspaceFolder THEN "findGitRepo" ELSE "idle"
    /\ UNCHANGED <<workspaceFolder, repoFound, hasChanges, command, handler, notices,
                   vvars, svars, cvars, rvars>>

\* handleExecuteCommits after findGitRepo: if (!repoRoot) return, else the
\* lock file is looked for
ExecuteFindGitRepo ==
    /\ execute = "findGitRepo"
    /\ IF repoFound
       THEN /\ execute' = "loop"
            /\ lockFile' \in (IF lockFile THEN {FALSE, TRUE} ELSE {FALSE})
       ELSE execute' = "idle" /\ UNCHANGED lockFile
    /\ UNCHANGED <<isProcessing, workspaceFolder, repoFound, hasChanges, command, handler,
                   executeLeft, notices, retryPc, retries, attemptI, gitLog, lockHandled,
                   retryErr, vvars, svars, cvars>>

\* the head of the loop over commits: git add of the commit's file, or the
\* end of the loop
ExecuteLoopHead ==
    /\ execute = "loop"
    /\ IF executeLeft > 0
       THEN /\ execute' = "add"
            /\ CallRunGitWithRetry(DefaultRetries)
            /\ UNCHANGED isProcessing
       ELSE /\ execute' = "idle"
            /\ isProcessing' = FALSE
            /\ UNCHANGED <<retryPc, retries, attemptI, gitLog, lockHandled, retryErr>>
    /\ UNCHANGED <<workspaceFolder, repoFound, hasChanges, command, handler, executeLeft,
                   notices, lockFile, vvars, svars, cvars>>

\* the catch blocks of handleExecuteCommits
ExecuteCatch ==
    /\ execute' = "idle"
    /\ isProcessing' = FALSE
    /\ notices' = notices \cup {"executeFailed"}
    /\ retryPc' = "idle"
    /\ UNCHANGED <<retries, attemptI, gitLog, lockHandled, retryErr, executeLeft>>

\* runGitWithRetry(['add', file]) has ended
ExecuteAdded ==
    /\ execute = "add"
    /\ retryPc \in {"returned", "thrown"}
    /\ IF retryPc = "returned"
       THEN /\ execute' = "commit"
            /\ CallRunGitWithRetry(DefaultRetries)
            /\ UNCHANGED <<isProcessing, notices, executeLeft>>
       ELSE ExecuteCatch
    /\ UNCHANGED <<workspaceFolder, repoFound, hasChanges, command, handler, lockFile,
                   vvars, svars, cvars>>

\* runGitWithRetry(commitArgs) has ended
ExecuteCommitted ==
    /\ execute = "commit"
    /\ retryPc \in {"returned", "thrown"}
    /\ IF retryPc = "returned"
       THEN /\ execute' = "loop"
            /\ executeLeft' = executeLeft - 1
            /\ retryPc' = "idle"
            /\ UNCHANGED <<isProcessing, notices, retries, attemptI, gitLog, lockHandled,
                           retryErr>>
       ELSE ExecuteCatch
    /\ UNCHANGED <<workspaceFolder, repoFound, hasChanges, command, handler, lockFile,
                   vvars, svars, cvars>>

\* --------------------------------------------------------- SpecWebview

\* the extension after activation, in a window with or without a folder, a
\* repository and changes
InitWebview ==
    /\ isProcessing = FALSE
    /\ workspaceFolder \in BOOLEAN
    /\ repoFound \in BOOLEAN
    /\ hasChanges \in BOOLEAN
    /\ command = "idle"
    /\ handler = [h \in {"split", "preview"} |-> "idle"]
    /\ execute = "idle"
    /\ executeLeft = 0
    /\ notices = {}
    /\ RetryIdle
    /\ ValidateIdle
    /\ SnapshotIdle
    /\ CycleIdle

NextWebview ==
    \/ CommandInvoked
    \/ CommandPlanned
    \/ CommandExecuted
    \/ SplitMessage
    \/ PreviewMessage
    \/ \E h \in {"split", "preview"} :
         PreviewFindGitRepo(h) \/ PreviewGetChangedFiles(h) \/ PreviewGenerateSimplePlan(h)
    \/ ExecuteMessage
    \/ ExecuteFindGitRepo
    \/ ExecuteLoopHead
    \/ ExecuteAdded
    \/ ExecuteCommitted
    \/ RunGitAttempt
    \/ HandleGitLockFile
    \/ RetryWait

SpecWebview == InitWebview /\ [][NextWebview]_vars

\* ============================================================ claims

Count(seq, x) == Cardinality({n \in 1..Len(seq) : seq[n] = x})

\* the concatenation of all commits' `hunks` lists, and of their `ops` lists
AllHunkRefs(plan) ==
    Concat([k \in 1..Len(CommitsOf(plan)) |-> HunkIdsOf(CommitsOf(plan)[k])])
AllOpRefs(plan) ==
    Concat([k \in 1..Len(CommitsOf(plan)) |-> OpIdsOf(CommitsOf(plan)[k])])

IdsOf(items) == {items[n].id : n \in 1..Len(items)}

ExactlyOnce(refs, ids) ==
    /\ \A id \in ids : Count(refs, id) = 1
    /\ Range(refs) \subseteq ids

\* C1: when validatePlan returns without throwing, every hunk id of the
\* snapshot occurs exactly once in the concatenation of the commits' hunks
\* lists and no other id occurs there, and likewise for the op ids.
C1_Partition ==
    vres.err = "ok" =>
        /\ ExactlyOnce(AllHunkRefs(vplan), IdsOf(vhunks))
        /\ ExactlyOnce(AllOpRefs(vplan), IdsOf(vops))

\* a plan of two commits over two hunks and one op is accepted
C1_Witness ==
    /\ vres.err = "ok"
    /\ Len(vplan.commits) = 2
    /\ Len(vhunks) = 2
    /\ Len(vops) = 1

\* every check that validatePlan makes before the coverage check passes,
\* stated on the plan itself
EarlierChecksPass(plan, hunks, ops) ==
    /\ Len(CommitsOf(plan)) > 0
    /\ \A k \in 1..Len(CommitsOf(plan)) :
          LET c == CommitsOf(plan)[k]
          IN  /\ Trim(c.message) # <<>>
              /\ Len(HunkIdsOf(c)) + Len(OpIdsOf(c)) > 0
              /\ isConventionalCommitHeader(c.message)
    /\ \A id \in Range(AllHunkRefs(plan)) :
          id \in IdsOf(hunks) /\ Count(AllHunkRefs(plan), id) = 1
    /\ \A id \in Range(AllOpRefs(plan)) :
          id \in IdsOf(ops) /\ Count(AllOpRefs(plan), id) = 1

Unreferenced(refs, ids) == ids \ Range(refs)

\* C10: when an id of the snapshot is referenced by no commit and no earlier
\* check fails, validatePlan fails with the missing-coverage error, which
\* lists exactly the unreferenced hunk ids and the unreferenced op ids.
C10_MissingCoverage ==
    ( /\ vres # Pending
      /\ EarlierChecksPass(vplan, vhunks, vops)
      /\ Unreferenced(AllHunkRefs(vplan), IdsOf(vhunks))
            \cup Unreferenced(AllOpRefs(vplan), IdsOf(vops)) # {} )
    => /\ vres.err = "missingItems"
       /\ vres.missingHunks = Unreferenced(AllHunkRefs(vplan), IdsOf(vhunks))
       /\ vres.missingOps = Unreferenced(AllOpRefs(vplan), IdsOf(vops))

\* one hunk of two is covered, the other hunk and the op are missing
C10_Witness ==
    /\ vres.err = "missingItems"
    /\ vres.missingHunks = {"h2"}
    /\ vres.missingOps = {"o1"}
    /\ AllHunkRefs(vplan) = <<"h1">>


\* C3: in every snapshot that collectWorkingTreeSnapshot returns, no hunk's
\* file equals the path of an operation of the same snapshot.
C3_UnsplittableExclusive ==
    snap.err = "ok" =>
        \A n \in 1..Len(snap.ops) : \A k \in 1..Len(snap.hunks) :
            snap.hunks[k].file # snap.ops[n].path

\* the diff holds a hunk of a file that an operation of the snapshot owns, the
\* operation coming from the status text in one case and from the diff in the other
C3_Witness ==
    /\ snap.err = "ok"
    /\ \E k \in 1..Len(parseUnifiedDiff(diffRaw)) : \E n \in 1..Len(snap.ops) :
          /\ parseUnifiedDiff(diffRaw)[k].file = snap.ops[n].path
          /\ snap.ops[n].kind = "binary"

\* ---- claims about the split cycle

InApplyPlan == variant = "hunk" /\ commitI >= 0
ApplyPlanEnded == InApplyPlan /\ pc = "done"
PlannedCount == Len(CommitsOf(planned))
LastIssued == log[Len(log)]
\* the created commits are the plan's commits 1..Len(created), in order
PlanPrefix == \A k \in 1..Len(created) : created[k].k = k

\* C2 as stated: applyPlan over a validated plan of M commits returns normally
\* only after creating all M commits in plan order, and otherwise ends with an
\* error after creating the commits 1..j for some j < M.
C2_AllOrErrorPrefix ==
    ApplyPlanEnded =>
        /\ PlanPrefix
        /\ result.kind = "returned" => Len(created) = PlannedCount
        /\ result.kind = "thrown" => Len(created) < PlannedCount

\* C2, amended: the created commits are always the plan's commits 1..j in
\* order with j <= M; applyPlan returns normally with j < M only when it saw
\* the cancellation request at the head of the loop, and it ends with an error
\* with j = M only when the git reset after the last commit failed.
C2_AllOrCancelledOrError ==
    ApplyPlanEnded =>
        /\ PlanPrefix
        /\ Len(created) <= PlannedCount
        /\ (result.kind = "returned" /\ Len(created) < PlannedCount)
              => (cancel /\ result.err = "cancelled")
        /\ (result.kind = "thrown" /\ Len(created) = PlannedCount)
              => LastIssued = Entry("reset", PlannedCount, FALSE)

C2_Witness ==
    /\ ApplyPlanEnded
    /\ result = [kind |-> "returned", err |-> "cancelled"]
    /\ Len(created) = 1
    /\ PlannedCount = 2

\* C4: a commit command is issued only right after a read-back of the staged
\* paths that found some, every commit is created from a non-empty index, and
\* when the read-back finds none applyPlan ends with the nothing-staged error
\* without a commit command.
C4_NoCommitFromEmptyIndex ==
    [][/\ (log' # log /\ log'[Len(log')].cmd = "commit")
            => /\ index # {}
               /\ log # <<>>
               /\ LastIssued = Entry("readBack", log'[Len(log')].k, TRUE)
       /\ created' # created
            => /\ index # {}
               /\ created' = Append(created, Created(commitI + 1, index))
       /\ (/\ variant = "hunk"
           /\ log' = Append(log, Entry("readBack", commitI + 1, TRUE))
           /\ index = {})
            => /\ pc' = "done"
               /\ result' = [kind |-> "thrown", err |-> "nothingStaged"]
               /\ created' = created]_vars

C4_Witness ==
    /\ ApplyPlanEnded
    /\ result = [kind |-> "thrown", err |-> "nothingStaged"]
    /\ LastIssued = Entry("readBack", commitI + 1, TRUE)
    /\ index = {}

PatchFailed == InApplyPlan /\ log # <<>> /\ LastIssued = Entry("apply", commitI + 1, FALSE)

\* C5 as stated: when the patch of a planned commit without ops fails to
\* apply, applyPlan ends with the nothing-staged error and no commit for it.
C5_PatchFailureIsNothingStaged ==
    (PatchFailed /\ pc = "done" /\ OpIdsOf(Current) = <<>>)
        => /\ result = [kind |-> "thrown", err |-> "nothingStaged"]
           /\ Len(created) = commitI

\* C5, amended: when the patch of a planned commit fails to apply, applyPlan
\* ends at once with the failure of the git command, before any op is staged
\* and before the staged paths are read back, and creates no commit for it;
\* the nothing-staged error is raised only after staging commands that all
\* succeeded.
C5_PatchFailureIsGitFailure ==
    /\ PatchFailed
          => /\ pc = "done"
             /\ result = [kind |-> "thrown", err |-> "gitCommandFailed"]
             /\ Len(created) = commitI
    /\ (InApplyPlan /\ result.err = "nothingStaged")
          => \A n \in 1..Len(log) : log[n].ok

C5_Witness ==
    /\ PatchFailed
    /\ pc = "done"
    /\ OpIdsOf(Current) = <<>>
    /\ result.err = "gitCommandFailed"

UnitsOf(c) == Range(HunkIdsOf(c)) \cup Range(OpIdsOf(c))

\* C6: in applyPlan, started with an empty index, the index is empty whenever
\* the staging of a planned commit begins, the last command before the staging
\* of a later commit is the successful reset that follows the commit before
\* it, and a created commit holds only what its own planned commit names.
C6_IndexCleanBetweenCommits ==
    variant = "hunk" =>
        /\ pc = "loop"
              => /\ index = {}
                 /\ commitI > 0 => LastIssued = Entry("reset", commitI, TRUE)
        /\ \A k \in 1..Len(created) :
              created[k].content \subseteq UnitsOf(CommitsOf(planned)[created[k].k])

C6_Witness ==
    /\ variant = "hunk"
    /\ pc = "loop"
    /\ commitI = 1
    /\ PlannedCount = 2
    /\ Len(created) = 1

FailedToStageOrCommit(e) == e.cmd \in {"apply", "add", "commit"} /\ ~e.ok
CommitsIssued == {n \in 1..Len(log) : log[n].cmd = "commit" /\ log[n].ok}

\* C7 as stated: in applyPlan and in executeSimplePlan a failed staging or
\* commit command is the last command issued, the run ends with its error,
\* and the commits created before it remain.
C7_FailureStopsBoth ==
    /\ \A n \in 1..Len(log) :
          FailedToStageOrCommit(log[n])
              => n = Len(log) /\ pc = "done" /\ result.kind = "thrown"
    /\ Len(created) = Cardinality(CommitsIssued)

\* C7, amended: in applyPlan a failed staging or commit command is the last
\* command issued and ends the run with its error; in executeSimplePlan that
\* holds of a failed commit command only, a failed git add being caught there
\* while staging goes on; in both, the commits created before remain.
C7_FailureStopsApplyPlan ==
    /\ \A n \in 1..Len(log) :
          (FailedToStageOrCommit(log[n]) /\ (variant = "hunk" \/ log[n].cmd = "commit"))
              => n = Len(log) /\ pc = "done" /\ result.kind = "thrown"
    /\ Len(created) = Cardinality(CommitsIssued)

C7_Witness ==
    /\ ApplyPlanEnded
    /\ LastIssued = Entry("add", 2, FALSE)
    /\ result = [kind |-> "thrown", err |-> "gitCommandFailed"]
    /\ Len(created) = 1

\* the cycle was started with staged changes in the index
StartedStaged ==
    PreStaged \in index \/ \E k \in 1..Len(created) : PreStaged \in created[k].content

\* C8 as stated: a cycle started with staged changes issues no snapshot,
\* planner, staging, commit or reset command, and ends with the
\* staged-changes error, in both variants.
C8_StagedIndexStopsEveryCycle ==
    StartedStaged =>
        /\ log = <<>>
        /\ created = <<>>
        /\ pc = "done" => result.err = "stagedChangesError"

Rejected(r) ==
    \/ r.kind \in {"noJson", "badJson"}
    \/ r.kind = "plan" /\ validatePlan(r.plan, snap.hunks, snap.ops).err # "ok"

\* C9: in the hunk-granular cycle applyPlan runs only with the planner's plan
\* and only when validatePlan accepts it, and after a response without a JSON
\* object, with invalid JSON or with a plan validatePlan rejects, the cycle
\* has ended with an error, the planner request being the last thing issued,
\* nothing staged and nothing committed.
C9_RejectedPlanNeverApplied ==
    variant = "hunk" =>
        /\ commitI >= 0
              => /\ response.kind = "plan"
                 /\ planned = response.plan
                 /\ validatePlan(planned, snap.hunks, snap.ops).err = "ok"
        /\ Rejected(response)
              => /\ pc = "done"
                 /\ result.kind = "thrown"
                 /\ commitI = -1
                 /\ LastIssued.cmd = "planner"
                 /\ index = {}
                 /\ created = <<>>

C9_Witness ==
    /\ variant = "hunk"
    /\ response.kind = "plan"
    /\ validatePlan(response.plan, snap.hunks, snap.ops).err = "missingItems"
    /\ pc = "done"

\* ---- further claims about validatePlan

\* the ids a plan may not reference: absent from the universe, or referenced twice
Offending(refs, ids) == {id \in Range(refs) : id \notin ids \/ Count(refs, id) > 1}

HasOffence(plan, hunks, ops) ==
    Offending(AllHunkRefs(plan), IdsOf(hunks)) \cup Offending(AllOpRefs(plan), IdsOf(ops)) # {}

IdErrors == {"unknownHunkId", "duplicateHunkId", "unknownOpId", "duplicateOpId"}

\* the error is an unknown-id or duplicate-id error that names an offending id
NamesOffence(res, plan, hunks, ops) ==
    /\ res.err \in IdErrors
    /\ res.err = "unknownHunkId" => res.id \in Range(AllHunkRefs(plan)) \ IdsOf(hunks)
    /\ res.err = "duplicateHunkId"
          => res.id \in IdsOf(hunks) /\ Count(AllHunkRefs(plan), res.id) > 1
    /\ res.err = "unknownOpId" => res.id \in Range(AllOpRefs(plan)) \ IdsOf(ops)
    /\ res.err = "duplicateOpId"
          => res.id \in IdsOf(ops) /\ Count(AllOpRefs(plan), res.id) > 1

\* every commit passes the checks that do not look at ids
OtherChecksPass(plan) ==
    \A k \in 1..Len(CommitsOf(plan)) :
        LET c == CommitsOf(plan)[k]
        IN  /\ Trim(c.message) # <<>>
            /\ Len(HunkIdsOf(c)) + Len(OpIdsOf(c)) > 0
            /\ isConventionalCommitHeader(c.message)

\* C11 as stated: on a plan that references an id outside the universe or an
\* id twice, validatePlan fails with an unknown-id or duplicate-id error that
\* names an offending id.
C11_OffenceNamed ==
    (vres # Pending /\ HasOffence(vplan, vhunks, vops))
        => NamesOffence(vres, vplan, vhunks, vops)

\* C11, amended: on such a plan validatePlan never succeeds; the error is an
\* unknown-id or duplicate-id error naming an offending id whenever it is an
\* id error at all, and it is one whenever every commit has a non-blank
\* conventional message and references something; otherwise the error of an
\* earlier check (empty message, empty commit, non-conventional message of an
\* earlier commit) may come first.
C11_OffenceRejected ==
    (vres # Pending /\ HasOffence(vplan, vhunks, vops))
        => /\ vres.err # "ok"
           /\ vres.err \in IdErrors => NamesOffence(vres, vplan, vhunks, vops)
           /\ OtherChecksPass(vplan) => vres.err \in IdErrors

\* the same hunk id in two commits, rejected by name
C11_Witness ==
    /\ vres.err = "duplicateHunkId"
    /\ vres.id = "h1"
    /\ Len(vplan.commits) = 2
    /\ HunkIdsOf(vplan.commits[1]) = <<"h1">>
    /\ HunkIdsOf(vplan.commits[2]) = <<"h1">>

BlankMessage(c) == Trim(c.message) = <<>>
ReferencesNothing(c) == Len(HunkIdsOf(c)) + Len(OpIdsOf(c)) = 0

\* C12: validatePlan fails on a plan without commits (with the empty-plan
\* error), on a plan with a commit whose message is empty or blank, and on a
\* plan with a commit that references no hunk and no op, whatever the other
\* commits cover.
C12_EmptyPlanOrCommitRejected ==
    vres # Pending =>
        /\ Len(CommitsOf(vplan)) = 0 => vres.err = "emptyPlan"
        /\ (\E k \in 1..Len(CommitsOf(vplan)) :
               BlankMessage(CommitsOf(vplan)[k]) \/ ReferencesNothing(CommitsOf(vplan)[k]))
              => vres.err \notin {"ok", "missingItems"}

\* the first commit covers the whole universe, the second references nothing
C12_Witness ==
    /\ vres.err = "emptyCommitNotAllowed"
    /\ Len(vhunks) = 2
    /\ Len(vops) = 1
    /\ Len(vplan.commits) = 2
    /\ HunkIdsOf(vplan.commits[1]) = <<"h1", "h2">>
    /\ OpIdsOf(vplan.commits[1]) = <<"o1">>
    /\ ~vplan.commits[2].hasHunks
    /\ ~vplan.commits[2].hasOps

\* ---- claims about the commit message

\* t is a type of lowercase letters, an optional parenthesised non-empty
\* scope, a colon, one whitespace character and a subject that satisfies ok
HeaderForm(t, ok(_)) ==
    \E a \in 1..Len(t) : \E b \in a..Len(t) :
        /\ \A k \in 1..a : t[k] \in Lower
        /\ \/ b = a
           \/ /\ b >= a + 3
              /\ t[a + 1] = "("
              /\ t[b] = ")"
              /\ \A k \in (a + 2)..(b - 1) : t[k] # ")"
        /\ Len(t) >= b + 2
        /\ t[b + 1] = ":"
        /\ t[b + 2] \in WhiteSpace
        /\ ok(Drop(t, b + 2))

SubjectLength(subject) == Len(subject) >= 1 /\ Len(subject) <= MaxSubject
SubjectOneLine(subject) ==
    /\ SubjectLength(subject)
    /\ \A k \in 1..Len(subject) : subject[k] \notin LineTerminators

TheMessage == vplan.commits[1].message

\* C13 as stated: the message is accepted if and only if its trimmed text is
\* a lowercase type, an optional non-empty scope in parentheses, the colon
\* with its separator, and a subject of 1 to 72 characters.
C13_HeaderAcceptedIffForm ==
    (vres # Pending /\ Len(CommitsOf(vplan)) = 1 /\ vhunks = <<H1>> /\ vops = <<>>)
        => (vres.err = "ok" <=> HeaderForm(Trim(TheMessage), SubjectLength))

\* C13, amended: the message is accepted if and only if its trimmed text is a
\* lowercase type, an optional non-empty scope in parentheses, a colon, one
\* whitespace character, and a subject of 1 to 72 characters none of which is
\* a line terminator; so a subject of 72 characters is accepted, one of 73 is
\* not, "Fix bug" is rejected and "fix(core): handle null input" accepted.
C13_HeaderAcceptedIffOneLineForm ==
    (vres # Pending /\ Len(CommitsOf(vplan)) = 1 /\ vhunks = <<H1>> /\ vops = <<>>)
        => /\ vres.err = "ok" <=> HeaderForm(Trim(TheMessage), SubjectOneLine)
           /\ vres.err \in {"ok", "notConventionalCommit", "emptyCommitMessage"}
           /\ TheMessage = FixBugMsg => vres.err = "notConventionalCommit"
           /\ TheMessage = FixCoreMsg => vres.err = "ok"
           /\ TheMessage = <<"f", "i", "x", ":", SP>> \o Repeat("x", MaxSubject)
                 => vres.err = "ok"
           /\ TheMessage = <<"f", "i", "x", ":", SP>> \o Repeat("x", MaxSubject + 1)
                 => vres.err = "notConventionalCommit"

\* a subject of 73 characters is rejected
C13_Witness ==
    /\ vres.err = "notConventionalCommit"
    /\ TheMessage = <<"f", "i", "x", ":", SP>> \o Repeat("x", MaxSubject + 1)

\* ---- further claims about the split cycle

\* this step ends the hunk-granular cycle because of the cancellation request
HonoursCancel == variant = "hunk" /\ result = Running /\ result'.err = "cancelled"

\* C14: the cancellation request ends the cycle only at a test between whole
\* commits: in splitAndCommit before the snapshot or before the planner, or
\* at the head of applyPlan's loop, where every planned commit begun so far
\* has been committed and reset and no command of the next one was issued; at
\* that moment nothing is staged, and the step stages, commits and issues
\* nothing.
C14_CancelBetweenCommits ==
    [][HonoursCancel
          => /\ cancel
             /\ pc \in {"cancelCheck1", "cancelCheck2", "loop"}
             /\ index = {}
             /\ pc = "loop"
                   => /\ Len(created) = commitI
                      /\ commitI > 0 => LastIssued = Entry("reset", commitI, TRUE)
                      /\ commitI = 0 => LastIssued.cmd = "planner"
             /\ UNCHANGED <<index, created, log>>]_vars

\* the request is pending while a planned commit is half staged
C14_Witness ==
    /\ variant = "hunk"
    /\ cancel
    /\ pc = "stageOp"
    /\ index # {}
    /\ result = Running

\* ---- C15
\* the ids of the snapshot's hunks and operations
SnapshotUnits == IdsIn(snap.hunks) \cup IdsIn(snap.ops)

\* the ids that the planned commits 1..k reference
ReferencedUpTo(k) ==
    UNION {UnitsOf(CommitsOf(planned)[n]) : n \in 1..Min({k, Len(CommitsOf(planned))})}

StatusTokens(raw) == SelectSeq(Split(raw, NUL), NonEmpty)

\* the records of a token list in the format of git status --porcelain=v2 -z:
\* the token after a `2` record is that record's original path, not a record
RECURSIVE StatusRecords(_)
StatusRecords(tokens) ==
    IF tokens = <<>> THEN <<>>
    ELSE IF Head(tokens)[1] = "2"
    THEN <<SubSeq(tokens, 1, Min({2, Len(tokens)}))>>
             \o StatusRecords(SubSeq(tokens, 3, Len(tokens)))
    ELSE <<<<Head(tokens)>>>> \o StatusRecords(Tail(tokens))

IsUnmergedRecord(rec) == rec[1][1] = "u"

HasUnmergedRecord(raw) ==
    \E n \in 1..Len(StatusRecords(StatusTokens(raw))) :
        IsUnmergedRecord(StatusRecords(StatusTokens(raw))[n])

\* the status text without its unmerged records
WithoutUnmergedRecords(raw) ==
    LET NotUnmerged(rec) == ~IsUnmergedRecord(rec)
        kept == SelectSeq(StatusRecords(StatusTokens(raw)), NotUnmerged)
    IN  TerminateAll(Concat(kept), NUL)

\* C16: a status text with an unmerged record sets hasUnmerged and yields no
\* operation for that record, the snapshot fails with unmergedNotSupported,
\* and the cycle issues no planner request, staging, commit or reset
C16_UnmergedStopsCycle ==
    (variant = "hunk" /\ HasUnmergedRecord(statusRaw)) =>
        /\ parsePorcelainV2Z(statusRaw).hasUnmerged
        /\ parsePorcelainV2Z(statusRaw).ops
               = parsePorcelainV2Z(WithoutUnmergedRecords(statusRaw)).ops
        /\ collectWorkingTreeSnapshot(statusRaw, diffRaw).err = "unmergedNotSupported"
        /\ \A n \in 1..Len(log) : log[n].cmd = "snapshot"
        /\ (\E n \in 1..Len(log) : log[n] = Entry("snapshot", 0, TRUE))
               => result = [kind |-> "thrown", err |-> "unmergedNotSupported"]
        /\ created = <<>>

\* the snapshot of a status text with an untracked file and an unmerged
\* record was collected and the cycle ended
C16_Witness ==
    /\ variant = "hunk"
    /\ HasUnmergedRecord(statusRaw)
    /\ Len(parsePorcelainV2Z(statusRaw).ops) = 1
    /\ pc = "done"
    /\ result = [kind |-> "thrown", err |-> "unmergedNotSupported"]

\* ---- C17
\* the op that a `git add` command of applyPlan was issued for
OpOf(entry) == ById(snap.ops, entry.op)

\* C17 as stated: every staging step for a rename or copy op names the
\* original path and the destination path together
C17_OriginAndDestinationStaged ==
    \A n \in 1..Len(addArgs) :
        OpOf(addArgs[n]).kind \in {"rename", "copy"} =>
            addArgs[n].paths = <<OpOf(addArgs[n]).origPath, OpOf(addArgs[n]).path>>

\* the inner loop stands at a rename op that has no origPath
AtRenameMissingOrig ==
    /\ variant = "hunk" /\ pc = "stageOp"
    /\ HasId(snap.ops, OpIdsOf(Current)[opI + 1])
    /\ ById(snap.ops, OpIdsOf(Current)[opI + 1]).kind = "rename"
    /\ ById(snap.ops, OpIdsOf(Current)[opI + 1]).origPath = <<>>

\* C17: a rename op is staged by one `git add -A` of its original and its
\* destination path, a copy op by one `git add` of its destination path
\* alone, and a rename op with no origPath makes applyPlan throw
\* renameMissingOrig without issuing a staging command for it
C17_RenameStagedWithOrigin ==
    /\ [](\A n \in 1..Len(addArgs) :
            /\ OpOf(addArgs[n]).kind = "rename" =>
                   /\ OpOf(addArgs[n]).origPath # <<>>
                   /\ addArgs[n].form = "add -A"
                   /\ addArgs[n].paths
                          = <<OpOf(addArgs[n]).origPath, OpOf(addArgs[n]).path>>
            /\ OpOf(addArgs[n]).kind = "copy" =>
                   /\ addArgs[n].form = "add"
                   /\ addArgs[n].paths = <<OpOf(addArgs[n]).path>>)
    /\ [][(AtRenameMissingOrig /\ pc' # pc) =>
             /\ result' = [kind |-> "thrown", err |-> "renameMissingOrig"]
             /\ UNCHANGED <<addArgs, log, index, created>>]_vars

\* a rename op with an original path was staged and committed
C17_Witness ==
    /\ Len(addArgs) > 0
    /\ OpOf(addArgs[1]).kind = "rename"
    /\ OpOf(addArgs[1]).origPath # <<>>
    /\ Len(created) > 0

\* ---- C18
DecimalDigits == <<"0", "1", "2", "3", "4", "5", "6", "7", "8", "9">>
\* a number below ten as it is written in a message
NumText(n) == <<DecimalDigits[n + 1]>>

IsInfix(p, s) ==
    \E from \in 1..(Len(s) - Len(p) + 1) : SubSeq(s, from, from + Len(p) - 1) = p

\* the error message holds the text among the values that the program put
\* into it (git's exit code and stderr are not the program's words)
Mentioned(text) ==
    \E n \in 1..Len(errorParams) :
        /\ errorParams[n].kind \notin {"code", "stderr"}
        /\ IsInfix(text, errorParams[n].text)

\* applyPlan ended on an apply-time failure of planned commit commitI + 1:
\* the patch did not apply, nothing was staged, or git commit failed
ApplyTimeFailure ==
    /\ variant = "hunk" /\ pc = "done" /\ commitI >= 0
    /\ \/ result = [kind |-> "thrown", err |-> "nothingStaged"]
       \/ /\ result = [kind |-> "thrown", err |-> "gitCommandFailed"]
          /\ log[Len(log)].cmd \in {"apply", "commit"}

\* C18: the error of an apply-time failure of planned commit k names k and
\* the commit's message and states how many planned commits were created
C18_FailureNamesCommitAndProgress ==
    ApplyTimeFailure =>
        /\ Mentioned(NumText(commitI + 1))
        /\ Mentioned(Current.message)
        /\ Mentioned(NumText(Len(created)))

\* ---- C19
\* the status text holds the record of b.txt with two marker characters
TwoMarks == UntrackedTwoMarks \in Range(StatusTokens(statusRaw))

\* the plan puts every id of the snapshot in one commit with the message
\* "chore: initial"
ScenarioPlan ==
    /\ Len(CommitsOf(vplan)) = 1
    /\ CommitsOf(vplan)[1].message = INITIAL
    /\ Range(HunkIdsOf(CommitsOf(vplan)[1])) = IdsIn(vhunks)
    /\ Range(OpIdsOf(CommitsOf(vplan)[1])) = IdsIn(vops)

OneHunkOfATxt(s) ==
    /\ s.err = "ok"
    /\ Len(s.hunks) = 1
    /\ s.hunks[1].file = A_TXT

OneAddOp(s, path) ==
    /\ Len(s.ops) = 1
    /\ s.ops[1].kind = "add"
    /\ s.ops[1].path = path

\* C19 as stated: the snapshot of the scenario has one hunk, of a.txt, and
\* one op, an add of exactly b.txt, and the one-commit plan passes
C19_ScenarioYieldsBTxt ==
    /\ snap # Pending => OneHunkOfATxt(snap) /\ OneAddOp(snap, B_TXT)
    /\ (vres # Pending /\ ScenarioPlan) => vres.err = "ok"

\* C19: the snapshot of the scenario has one hunk, of a.txt, and one op, an
\* add whose path is what follows the first two characters of the untracked
\* record (" b.txt" for "?? b.txt", "b.txt" for "? b.txt"), and the
\* one-commit plan with the message "chore: initial" passes validatePlan
C19_ScenarioYieldsRestOfRecord ==
    /\ snap # Pending =>
           /\ OneHunkOfATxt(snap)
           /\ OneAddOp(snap, IF TwoMarks THEN <<SP>> \o B_TXT ELSE B_TXT)
    /\ (vres # Pending /\ ScenarioPlan) => vres.err = "ok"

\* the scenario's status text was parsed and its one-commit plan validated
C19_Witness ==
    /\ TwoMarks
    /\ snap # Pending
    /\ OneAddOp(snap, <<SP>> \o B_TXT)
    /\ ScenarioPlan
    /\ vres # Pending
    /\ vres.err = "ok"

\* ---- C20
DiffLines == SplitLines(diffRaw)

\* the lines at which a file section starts
SectionStarts == {i \in 1..Len(DiffLines) : StartsWith(DiffLines[i], DIFF_GIT)}

\* the lines of the file section that starts at line i: up to the next
\* `diff --git ` line or the end of the text
SectionLines(i) ==
    LET later == {j \in SectionStarts : j > i}
    IN  SubSeq(DiffLines, i, IF later = {} THEN Len(DiffLines) ELSE Min(later) - 1)

\* the number of hunks that start before line i
HunksBefore(i) ==
    Cardinality({j \in 1..Len(DiffLines) : j < i /\ StartsWith(DiffLines[j], AT_AT)})

\* the hunks parsed from the file section that starts at line i, in parse order
SectionHunks(i) ==
    SubSeq(parseUnifiedDiff(diffRaw), HunksBefore(i) + 1,
           HunksBefore(i + Len(SectionLines(i))))

\* the fileHeader that the section's hunks carry, followed by their hunkLines
Rebuilt(hs) ==
    (IF hs = <<>> THEN <<>> ELSE hs[1].fileHeader)
        \o Concat([n \in 1..Len(hs) |-> hs[n].hunkLines])

SameFileHeader(hs) == \A n \in 1..Len(hs) : hs[n].fileHeader = hs[1].fileHeader

\* hunkLines starts with an `@@ ` line and holds no other `@@ ` or
\* `diff --git ` line
WellFormedHunkLines(h) ==
    /\ Len(h.hunkLines) >= 1
    /\ StartsWith(h.hunkLines[1], AT_AT)
    /\ \A k \in 2..Len(h.hunkLines) :
           /\ ~StartsWith(h.hunkLines[k], AT_AT)
           /\ ~StartsWith(h.hunkLines[k], DIFF_GIT)

AllHunksWellFormed ==
    \A n \in 1..Len(parseUnifiedDiff(diffRaw)) :
        WellFormedHunkLines(parseUnifiedDiff(diffRaw)[n])

\* C20 as stated: every file section is rebuilt from the fileHeader and the
\* hunkLines of its hunks
C20_EverySectionRebuilt ==
    snap # Pending =>
        /\ \A i \in SectionStarts :
               /\ SameFileHeader(SectionHunks(i))
               /\ Rebuilt(SectionHunks(i)) = SectionLines(i)
        /\ AllHunksWellFormed

\* C20: the hunks of a file section carry the same fileHeader; a section
\* with at least one hunk is rebuilt line for line from that fileHeader and
\* the hunkLines of its hunks in parse order, a section with no `@@ ` line
\* yields no hunk; every hunkLines starts with an `@@ ` line and holds no
\* other `@@ ` or `diff --git ` line
C20_SectionWithHunksRebuilt ==
    snap # Pending =>
        /\ \A i \in SectionStarts :
               /\ SameFileHeader(SectionHunks(i))
               /\ SectionHunks(i) # <<>> => Rebuilt(SectionHunks(i)) = SectionLines(i)
               /\ SectionHunks(i) = <<>> <=>
                      (\A k \in 1..Len(SectionLines(i)) :
                          ~StartsWith(SectionLines(i)[k], AT_AT))
        /\ AllHunksWellFormed

\* a diff whose file section has a header of two lines and a hunk was parsed
C20_Witness ==
    /\ snap # Pending
    /\ \E i \in SectionStarts :
           /\ Len(SectionHunks(i)) = 1
           /\ Len(SectionHunks(i)[1].fileHeader) = 2
           /\ Rebuilt(SectionHunks(i)) = SectionLines(i)

\* ---- C21
\* the parts of the composite patch of the planned commit being applied
PatchOfCurrent == patchParts(Current, snap.hunks)

PartsEqualTo(text) == {n \in 1..Len(PatchOfCurrent) : PatchOfCurrent[n] = text}

\* the snapshot's hunks that the planned commit being applied references
ReferencedHunks == {n \in 1..Len(snap.hunks) : snap.hunks[n].id \in Range(HunkIdsOf(Current))}

HunkText(n) == Join(snap.hunks[n].hunkLines, LF)
HeaderText(n) == Join(snap.hunks[n].fileHeader, LF)

\* C21: in the composite patch of a planned commit each referenced file's
\* header appears once and before that file's hunks, and the hunks of a
\* file appear in the order of the snapshot, whatever the order of the
\* plan's hunks list
C21_PatchInSnapshotOrder ==
    (variant = "hunk" /\ pc = "applyPatch") =>
        /\ \A n \in ReferencedHunks :
               /\ Cardinality(PartsEqualTo(HeaderText(n))) = 1
               /\ Min(PartsEqualTo(HeaderText(n))) < Min(PartsEqualTo(HunkText(n)))
        /\ \A m, n \in ReferencedHunks :
               (m < n /\ snap.hunks[m].file = snap.hunks[n].file) =>
                   Min(PartsEqualTo(HunkText(m))) < Min(PartsEqualTo(HunkText(n)))

\* ---- C22
ParseOf(tokens) == ParseTokens(tokens, 0, ParseState(<<>>, {}, FALSE))

\* what a parse yields apart from the original paths
Summary(st) ==
    [ops |-> [n \in 1..Len(st.ops) |-> <<st.ops[n].kind, st.ops[n].path>>],
     unsplittablePaths |-> st.unsplittablePaths,
     hasUnmerged |-> st.hasUnmerged]

TenFields(t) == Len(Split(t, SP)) >= 10

\* the positions of the tokens that follow a `2` record, the records being
\* read from position i on; with fullOnly, a `2` token of fewer than ten
\* fields is a record of one token
RECURSIVE TakenAsOrigin(_, _, _)
TakenAsOrigin(tokens, i, fullOnly) ==
    IF i >= Len(tokens) THEN {}
    ELSE IF tokens[i][1] = "2" /\ (fullOnly => TenFields(tokens[i]))
    THEN {i + 1} \cup TakenAsOrigin(tokens, i + 2, fullOnly)
    ELSE TakenAsOrigin(tokens, i + 1, fullOnly)

\* a token that no branch of the parser classifies
NeutralToken == <<"z">>

WithNeutral(tokens, at) ==
    [n \in 1..Len(tokens) |-> IF n \in at THEN NeutralToken ELSE tokens[n]]

\* every token at the positions is the original path of an operation, and
\* the parse yields nothing else from it
OnlyOriginalPaths(tokens, at) ==
    /\ \A j \in at : \E n \in 1..Len(ParseOf(tokens).ops) :
           ParseOf(tokens).ops[n].origPath = tokens[j]
    /\ Summary(ParseOf(tokens)) = Summary(ParseOf(WithNeutral(tokens, at)))

\* C22 as stated: the token after any `2` token is taken as its original
\* path and is not dispatched as a record
C22_TokenAfterAnyRenameConsumed ==
    snap # Pending =>
        OnlyOriginalPaths(StatusTokens(statusRaw),
                          TakenAsOrigin(StatusTokens(statusRaw), 1, FALSE))

\* the `2` tokens of fewer than ten fields that stand in record position
ShortRenames(tokens) ==
    {n \in 1..Len(tokens) :
        /\ tokens[n][1] = "2" /\ ~TenFields(tokens[n])
        /\ n \notin TakenAsOrigin(tokens, 1, TRUE)}

WithoutTokens(tokens, at) ==
    LET keep == {n \in 1..Len(tokens) : n \notin at}
    IN  [k \in 1..Cardinality(keep) |-> tokens[Nth(keep, k)]]

\* C22: the token after a `2` token of at least ten fields is taken as its
\* original path and is not dispatched as a record; a `2` token of fewer
\* fields is skipped alone, the token after it being dispatched
C22_TokenAfterFullRenameConsumed ==
    snap # Pending =>
        /\ OnlyOriginalPaths(StatusTokens(statusRaw),
                             TakenAsOrigin(StatusTokens(statusRaw), 1, TRUE))
        /\ ParseOf(StatusTokens(statusRaw))
               = ParseOf(WithoutTokens(StatusTokens(statusRaw),
                                       ShortRenames(StatusTokens(statusRaw))))

\* a status text whose `2` record is followed by a token that reads as the
\* record of an untracked file was parsed
C22_Witness ==
    /\ snap # Pending
    /\ StatusTokens(statusRaw) = <<Tok2(<<"R", "1">>, PB), TokUntracked(PA)>>
    /\ Len(snap.ops) = 1
    /\ snap.ops[1].origPath = TokUntracked(PA)

\* ---- C23
\* delete if either character of the XY code is D, else typechange if
\* either is T, else none
XYClass(xy) ==
    IF "D" \in {CharOr(xy, 0, "."), CharOr(xy, 1, ".")} THEN "delete"
    ELSE IF "T" \in {CharOr(xy, 0, "."), CharOr(xy, 1, ".")} THEN "typechange"
    ELSE "none"

FieldOr(parts, n, dflt) == IF n <= Len(parts) THEN parts[n] ELSE dflt

\* the classification of a token list, record by record. As stated: every
\* `1` token is classified by its XY code, every `2` token yields an
\* operation, and a `u` token yields nothing. Otherwise: a `1` token needs
\* nine fields and a `2` token ten, and a `u` token sets the conflict flag
RECURSIVE Classify(_, _, _)
Classify(tokens, asStated, st) ==
    IF tokens = <<>> THEN st
    ELSE LET t == Head(tokens)
             rest == Tail(tokens)
             parts == Split(t, SP)
         IN  IF t[1] = "?"
             THEN Classify(rest, asStated, WithOp(st, makeOp("add", Drop(t, 2), <<>>)))
             ELSE IF t[1] = "1"
             THEN LET class == IF asStated \/ Len(parts) >= 9
                               THEN XYClass(FieldOr(parts, 2, <<>>)) ELSE "none"
                      path == Join(SubSeq(parts, 9, Len(parts)), SP)
                  IN  Classify(rest, asStated,
                               IF class = "none" THEN st
                               ELSE WithOp(st, makeOp(class, path, <<>>)))
             ELSE IF t[1] = "2" /\ (asStated \/ Len(parts) >= 10)
             THEN LET kind == IF CharOr(FieldOr(parts, 9, <<>>), 0, "") = "C"
                              THEN "copy" ELSE "rename"
                      path == Join(SubSeq(parts, 10, Len(parts)), SP)
                      orig == IF rest = <<>> THEN <<>> ELSE Head(rest)
                  IN  Classify(IF rest = <<>> THEN <<>> ELSE Tail(rest), asStated,
                               WithOp(st, makeOp(kind, path, orig)))
             ELSE IF t[1] = "u" /\ ~asStated
             THEN Classify(rest, asStated,
                           ParseState(st.ops, st.unsplittablePaths, TRUE))
             ELSE Classify(rest, asStated, st)

\* C23 as stated: `?` yields add; `1` yields delete or typechange by its XY
\* code; `2` yields copy or rename; every other token yields no operation,
\* no unsplittable path and no conflict flag
C23_ClassifiedAsStated ==
    snap # Pending =>
        parsePorcelainV2Z(statusRaw)
            = Classify(StatusTokens(statusRaw), TRUE, ParseState(<<>>, {}, FALSE))

\* C23: `?` yields add; a `1` token of nine fields or more yields delete or
\* typechange by its XY code, D before T; a `2` token of ten fields or
\* more yields copy for action C and rename otherwise; a `u` token sets the
\* conflict flag; every other token, and a `1` or `2` token of fewer
\* fields, yields nothing
C23_ClassifiedByFields ==
    snap # Pending =>
        parsePorcelainV2Z(statusRaw)
            = Classify(StatusTokens(statusRaw), FALSE, ParseState(<<>>, {}, FALSE))

\* a `1` record whose XY code holds both D and T was parsed after a token
\* of another kind
C23_Witness ==
    /\ snap # Pending
    /\ StatusTokens(statusRaw) = <<<<"!", SP, "a">>, Tok1(<<"D", "T">>, PA)>>
    /\ Len(snap.ops) = 1
    /\ snap.ops[1].kind = "delete"

\* ---- C24
\* the backslashes that stand directly before position k, after position o
BackslashRun(text, o, k) ==
    Max({n \in 0..(k - o - 1) : \A j \in (k - n)..(k - 1) : text[j] = BACKSLASH})

\* the positions from `from` on that lie in a double-quoted string, the
\* quotes included: a string runs from a quote to the next quote that an
\* even number of backslashes precedes, or to the end of the text
RECURSIVE Quoted(_, _)
Quoted(text, from) ==
    LET opens == {k \in from..Len(text) : text[k] = QUOTE}
    IN  IF opens = {} THEN {}
        ELSE LET o == Min(opens)
                 closes == {k \in (o + 1)..Len(text) :
                                text[k] = QUOTE /\ BackslashRun(text, o, k) % 2 = 0}
             IN  IF closes = {} THEN o..Len(text)
                 ELSE (o..Min(closes)) \cup Quoted(text, Min(closes) + 1)

\* the brace depth of text[start..e], braces in strings not counted
BraceDepth(text, start, e) ==
    LET counted == (start..e) \ Quoted(text, start)
    IN  Cardinality({j \in counted : text[j] = "{"})
          - Cardinality({j \in counted : text[j] = "}"})

\* C24: extractJsonObjectBalanced returns the text from the first `{` to
\* the first position where the depth of the braces outside double-quoted
\* strings is back to zero, and fails with modelDidNotReturnJson when there
\* is no `{` or no such position
C24_BalancedObject ==
    result # Running =>
        LET opening == {k \in 1..Len(response) : response[k] = "{"}
            start == Min(opening)
            closing == {e \in start..Len(response) : BraceDepth(response, start, e) = 0}
        IN  IF opening = {} \/ closing = {}
            THEN result = ThrownJson
            ELSE result = ReturnedJson(SubSeq(response, start, Min(closing)))

\* a reply whose string holds a closing brace, with text after the object
C24_Witness ==
    /\ response = <<"a", "{", QUOTE, "}", QUOTE, "}">>
    /\ result = ReturnedJson(<<"{", QUOTE, "}", QUOTE, "}">>)

\* ---- C25
RetryDone == retryPc \in {"returned", "thrown"}

\* every runGit call but the last failed with a lock error
EarlierAreLockErrors ==
    \A k \in 1..(Len(gitLog) - 1) : gitLog[k] \in {"indexLock", "anotherProcess"}

C25_Bounded ==
    /\ Len(gitLog) <= retries
    /\ EarlierAreLockErrors
    /\ retryPc = "loop" =>
         /\ Len(gitLog) = attemptI
         /\ lockHandled = attemptI
         /\ \A k \in 1..Len(gitLog) : gitLog[k] \in {"indexLock", "anotherProcess"}
    /\ retryPc = "returned" => gitLog # <<>> /\ gitLog[Len(gitLog)] = "ok"
    /\ retryPc = "thrown" =>
         IF gitLog = <<>> THEN retries = 0
         ELSE /\ retryErr = gitLog[Len(gitLog)]
              /\ \/ retryErr = "other"
                 \/ retryErr \in {"indexLock", "anotherProcess"} /\ Len(gitLog) = retries

\* C25: runGitWithRetry ends after at most `retries` calls of runGit; a call
\* after the first follows a lock error and a call of handleGitLockFile; any
\* other failure is rethrown at once, and so is a lock error of the last
\* attempt
C25_RetryTerminates == []C25_Bounded /\ <>RetryDone

\* the third of three attempts failed with a lock error, which was rethrown
C25_Witness ==
    /\ retries = 3
    /\ gitLog = <<"indexLock", "anotherProcess", "indexLock">>
    /\ lockHandled = 2
    /\ retryPc = "thrown"
    /\ retryErr = "indexLock"

\* ---- C26
\* how often path p stands in the file list fs
Occurrences(fs, p) == Cardinality({n \in 1..Len(fs) : fs[n] = p})

ChangedPaths == {changedFiles[n].path : n \in 1..Len(changedFiles)}

\* C26: after validateSimplePlan returns normally, every changed path stands
\* in exactly one commit's files, once; no commit lists another path; no
\* commit has an empty file list
C26_PlanPartitionsChangedFiles ==
    (vres # Pending /\ vres.err = "ok") =>
        LET commits == vres.plan.commits
        IN  /\ \A p \in ChangedPaths :
                 \E k \in 1..Len(commits) :
                    /\ Occurrences(commits[k].files, p) = 1
                    /\ \A j \in 1..Len(commits) : j # k => Occurrences(commits[j].files, p) = 0
            /\ \A k \in 1..Len(commits) :
                 /\ commits[k].files # <<>>
                 /\ \A n \in 1..Len(commits[k].files) : commits[k].files[n] \in ChangedPaths

\* a plan that names a.txt in both commits and a file that does not exist,
\* and leaves out n, was repaired
C26_Witness ==
    /\ vres # Pending
    /\ vres.err = "ok"
    /\ Len(changedFiles) = 3
    /\ vplan.commits = <<FileCommit(GoodMsg, TRUE, <<PA, PGhost>>),
                         FileCommit(GoodMsg, TRUE, <<PA, PB>>)>>
    /\ vres.plan.commits[1].files = <<PA>>
    /\ vres.plan.commits[2].files = <<PB, PN>>

\* ---- C27
\* no command callback and no message handler is running
NoHandlerRuns ==
    /\ command = "idle"
    /\ handler["split"] = "idle"
    /\ handler["preview"] = "idle"
    /\ execute = "idle"

\* C27: isProcessing is released: once every handler that was started has
\* completed, isProcessing is false
C27_ReleasedWhenHandlersDone == NoHandlerRuns => ~isProcessing

\* ---- C28
\* a commit loop is staging or committing
CommandLoopRuns == command = "executing"
ExecuteLoopRuns == execute \in {"loop", "add", "commit"}

\* C28: while the command's cycle runs, isProcessing is true and
\* handleExecuteCommits is in no commit loop
C28_OneCycleOwnsIndex ==
    command # "idle" => (isProcessing /\ ~ExecuteLoopRuns)

\* ---- C29
SnapshotReturned == snap # Pending /\ snap.err = "ok"

\* C29 as stated: no two operations of a returned snapshot have the same path
C29_OnePathOneOperation ==
    SnapshotReturned =>
        \A m, n \in 1..Len(snap.ops) : snap.ops[m].path = snap.ops[n].path => m = n

\* C29: no two operations of a returned snapshot have the same id, that is
\* the same kind, original path and path
C29_OneIdOneOperation ==
    SnapshotReturned =>
        \A m, n \in 1..Len(snap.ops) :
            (\/ snap.ops[m].id = snap.ops[n].id
             \/ /\ snap.ops[m].kind = snap.ops[n].kind
                /\ snap.ops[m].origPath = snap.ops[n].origPath
                /\ snap.ops[m].path = snap.ops[n].path) => m = n

\* a was reported as untracked by status and twice as binary by the diff:
\* the snapshot holds the add operation and one binary operation of a
C29_Witness ==
    /\ SnapshotReturned
    /\ statusRaw = TerminateAll(<<TokUntracked(PA)>>, NUL)
    /\ diffRaw = TerminateAll(<<BinaryLine(PA), BinaryLine(PA)>>, LF)
    /\ Len(snap.ops) = 2
    /\ snap.ops[1].kind = "add" /\ snap.ops[1].path = PA
    /\ snap.ops[2].kind = "binary" /\ snap.ops[2].path = PA

\* ---- C30
\* C30: when applyPlan has ended, by return, by cancellation or by a thrown
\* error, the index holds no staged changes
C30_IndexCleanAfterApplyPlan == ApplyPlanEnded => index = {}

=============================================================================
